---- MODULE Spec2Model ----
(***************************************************************************)
(* Model of ProximityInfoState (native/jni/src/proximity_info_state.cpp):  *)
(* the per-gesture session that resamples the touch stream, caches the     *)
(* point-to-key distances, derives the near/search key sets, classifies    *)
(* proximity characters and decodes the most probable string.              *)
(*                                                                         *)
(* Conventions.  C++ vectors and arrays are TLA+ sequences: the C++ index  *)
(* i is the position i + 1.  Values the code keeps as indices              *)
(* (mInputIndice, key ids, proximityIndex) stay 0-based.  float values are *)
(* integers: the keyboard and the touch points are chosen so that every    *)
(* normalized squared distance is a whole number, and log-probabilities    *)
(* are counted in tenths (DEMOTION_LOG_PROBABILITY 0.3f is 3).             *)
(***************************************************************************)
EXTENDS Integers, Sequences, FiniteSets, TLC

(***************************************************************************)
(* Bounds of the model.                                                    *)
(***************************************************************************)
\* longest raw touch stream the caller hands to initInputParams
MaxInput == 4
\* number of initInputParams calls in one behaviour
MaxCalls == 2

(***************************************************************************)
(* Constants of defines.h (the header is not part of the sources at hand). *)
(***************************************************************************)
MAX_WORD_LENGTH == 48
MAX_PROXIMITY_CHARS_SIZE == 16
ADDITIONAL_PROXIMITY_CHAR_DELIMITER_CODE == 2
NOT_A_COORDINATE == -1
NOT_AN_INDEX == -1
NOT_A_DISTANCE == -1
\* -1.0f, in 1024ths
NOT_A_DISTANCE_FLOAT == -1024
EQUIVALENT_CHAR_WITHOUT_DISTANCE_INFO == -2
PROXIMITY_CHAR_WITHOUT_DISTANCE_INFO == -3
\* MAX_POINT_TO_KEY_LENGTH (10000000) in tenths
MAX_POINT_TO_KEY_LENGTH == 100000000

(***************************************************************************)
(* Constants of proximity_info_state.cpp.                                  *)
(***************************************************************************)
\* static const float NEAR_KEY_NORMALIZED_SQUARED_THRESHOLD = 4.0f
NEAR_KEY_NORMALIZED_SQUARED_THRESHOLD == 4
\* static const float READ_FORWORD_LENGTH_SCALE = 0.95f, in hundredths
READ_FORWORD_LENGTH_SCALE == 95
\* static const float DEMOTION_LOG_PROBABILITY = 0.3f, in tenths
DEMOTION_LOG_PROBABILITY == 3
NORMALIZED_SQUARED_DISTANCE_SCALING_FACTOR_LOG_2 == 10
NORMALIZED_SQUARED_DISTANCE_SCALING_FACTOR == 1024

(***************************************************************************)
(* Small helpers.                                                          *)
(***************************************************************************)
Max2(a, b) == IF a >= b THEN a ELSE b

Min2(a, b) == IF a <= b THEN a ELSE b

Square(a) == a * a

\* floor of the square root: what a float-to-int cast of sqrtf/hypotf gives
ISqrt(v) == CHOOSE r \in 0..v : r * r <= v /\ (r + 1) * (r + 1) > v

\* std::vector::resize(n): cut, or fill with value-initialised elements
Resize(seq, n, dflt) == [i \in 1..n |-> IF i <= Len(seq) THEN seq[i] ELSE dflt]

\* e, once v is evaluated: TLC defers the arguments of an operator, and a
\* loop that hands its state on as an argument would pile the deferred
\* states up until the last iteration
Strict(v, e) == IF v = v THEN e ELSE e

\* std::vector::pop_back()
PopBack(seq) == SubSeq(seq, 1, Len(seq) - 1)

(***************************************************************************)
(* The Geometry Provider (ProximityInfo), an external collaborator.  One   *)
(* fixed keyboard: three keys of width 2, K0 and K1 in the first row and   *)
(* K2 below K1.                                                            *)
(***************************************************************************)
getKeyCount == 3

getMostCommonKeyWidth == 2

getKeyboardWidth == 6

getKeyboardHeight == 6

KeyIds == 0..(getKeyCount - 1)

getKeyCenterXOfKeyIdG(k) == IF k = 0 THEN 0 ELSE 4

getKeyCenterYOfKeyIdG(k) == IF k = 2 THEN 4 ELSE 0

\* code point of a key: 'a', 'b', 'c'
getCodePointOf(k) == 97 + k

getKeyIndexOf(c) == IF c \in 97..(96 + getKeyCount) THEN c - 97 ELSE NOT_AN_INDEX

\* squared distance to the key's centre over the squared key width
getNormalizedSquaredDistanceFromCenterFloatG(k, x, y) ==
    (Square(x - getKeyCenterXOfKeyIdG(k)) + Square(y - getKeyCenterYOfKeyIdG(k)))
        \div Square(getMostCommonKeyWidth)

\* the key whose centre is nearest to (x, y), the lowest key id among equals
NearestKey(x, y) ==
    CHOOSE k \in KeyIds : \A o \in KeyIds :
        LET dk == getNormalizedSquaredDistanceFromCenterFloatG(k, x, y)
            do == getNormalizedSquaredDistanceFromCenterFloatG(o, x, y)
        IN dk < do \/ (dk = do /\ k <= o)

\* the code points of the keys from k on that are close to (x, y), but for key p
RECURSIVE ProximityCharsFrom(_, _, _, _)
ProximityCharsFrom(k, p, x, y) ==
    IF k >= getKeyCount THEN <<>>
    ELSE (IF k # p /\ getNormalizedSquaredDistanceFromCenterFloatG(k, x, y) <= 4
          THEN <<getCodePointOf(k)>>
          ELSE <<>>)
         \o ProximityCharsFrom(k + 1, p, x, y)

\* initializeProximities: per input point the typed code point (the nearest
\* key's), then the code points of the close keys, then zeros
initializeProximities(xs, ys) ==
    [i \in 1..Len(xs) |->
        LET p == NearestKey(xs[i], ys[i])
            chars == <<getCodePointOf(p)>> \o ProximityCharsFrom(0, p, xs[i], ys[i])
        IN [j \in 1..MAX_PROXIMITY_CHARS_SIZE |->
               IF j <= Len(chars) THEN chars[j] ELSE 0]]

\* the keyboard has touch position correction data: K0 and K1 have a sweet
\* spot, of radius 2 around the key's centre, K2 has none
hasTouchPositionCorrectionData == TRUE

hasSweetSpotData(keyIndex) == keyIndex \in {0, 1}

getSweetSpotCenterXAt(keyIndex) == getKeyCenterXOfKeyIdG(keyIndex)

getSweetSpotCenterYAt(keyIndex) == getKeyCenterYOfKeyIdG(keyIndex)

getSweetSpotRadiiAt(keyIndex) == 2

\* (int)hypotf(x0 - x1, y0 - y1)
getDistanceInt(x0, y0, x1, y1) == ISqrt(Square(x0 - x1) + Square(y0 - y1))

(***************************************************************************)
(* The touch points the caller can report.  A = K0's centre, B = K1's      *)
(* centre, C = half way from K1 to K2.                                     *)
(***************************************************************************)
PointSet == {<<0, 0>>, <<4, 0>>, <<4, 2>>}

\* pointer ids of a call; the pointerIds stream is null, so every point is pointer 0
PointerIds == {0, 1}

\* the caller's clock: the k-th point of a stream carries time 10 * k + base
TimeBases == {0, 1}

\* the one maxPointToKeyLength the caller passes
MaxPointToKeyLengths == {5}

VARIABLES
    \* the caller's raw stream (xCoordinates, yCoordinates of the next call)
    inputXs, inputYs,
    \* ProximityInfoState's fields
    mSampledInputSize, mSampledInputXs, mSampledInputYs, mTimes, mInputIndice,
    mLengthCache, mDistanceCache_G, mNearKeysVector, mSearchKeysVector,
    mSpeedRates, mDirections, mBeelineSpeedPercentiles, mCharProbabilities,
    mIsContinuationPossible, mMaxPointToKeyLength, mInputProximities,
    mNormalizedSquaredDistances, mPrimaryInputWord, mTouchPositionCorrectionEnabled,
    \* the last initInputParams call: its arguments and its locals
    lastCall,
    \* number of initInputParams calls so far
    calls,
    \* a read-only query of the session (its arguments) and what it returned
    query, answer

sessionVars == <<mSampledInputSize, mSampledInputXs, mSampledInputYs, mTimes,
    mInputIndice, mLengthCache, mDistanceCache_G, mNearKeysVector,
    mSearchKeysVector, mSpeedRates, mDirections, mBeelineSpeedPercentiles,
    mCharProbabilities, mIsContinuationPossible, mMaxPointToKeyLength,
    mInputProximities, mNormalizedSquaredDistances, mPrimaryInputWord,
    mTouchPositionCorrectionEnabled>>

vars == <<inputXs, inputYs, sessionVars, lastCall, calls, query, answer>>

\* the session as one value
State == [
    mSampledInputSize |-> mSampledInputSize,
    mSampledInputXs |-> mSampledInputXs,
    mSampledInputYs |-> mSampledInputYs,
    mTimes |-> mTimes,
    mInputIndice |-> mInputIndice,
    mLengthCache |-> mLengthCache,
    mDistanceCache_G |-> mDistanceCache_G,
    mNearKeysVector |-> mNearKeysVector,
    mSearchKeysVector |-> mSearchKeysVector,
    mSpeedRates |-> mSpeedRates,
    mDirections |-> mDirections,
    mBeelineSpeedPercentiles |-> mBeelineSpeedPercentiles,
    mCharProbabilities |-> mCharProbabilities,
    mIsContinuationPossible |-> mIsContinuationPossible,
    mMaxPointToKeyLength |-> mMaxPointToKeyLength,
    mInputProximities |-> mInputProximities,
    mNormalizedSquaredDistances |-> mNormalizedSquaredDistances,
    mPrimaryInputWord |-> mPrimaryInputWord,
    mTouchPositionCorrectionEnabled |-> mTouchPositionCorrectionEnabled]

\* the session after construction: every vector empty
FreshState == [
    mSampledInputSize |-> 0,
    mSampledInputXs |-> <<>>,
    mSampledInputYs |-> <<>>,
    mTimes |-> <<>>,
    mInputIndice |-> <<>>,
    mLengthCache |-> <<>>,
    mDistanceCache_G |-> <<>>,
    mNearKeysVector |-> <<>>,
    mSearchKeysVector |-> <<>>,
    mSpeedRates |-> <<>>,
    mDirections |-> <<>>,
    mBeelineSpeedPercentiles |-> <<>>,
    mCharProbabilities |-> <<>>,
    mIsContinuationPossible |-> FALSE,
    mMaxPointToKeyLength |-> 0,
    mInputProximities |-> <<>>,
    mNormalizedSquaredDistances |-> <<>>,
    mPrimaryInputWord |-> <<>>,
    mTouchPositionCorrectionEnabled |-> FALSE]


(***************************************************************************)
(* checkAndReturnIsContinuationPossible.  xs, ys, ts are the new streams,  *)
(* of inputSize elements each.  garbage = <<gx, gy, gt>> is what the       *)
(* memory behind the last element of the three streams holds: a read at    *)
(* index inputSize is outside the streams and yields it.                   *)
(***************************************************************************)
ReadAt(arr, index, beyond) == IF index < Len(arr) THEN arr[index + 1] ELSE beyond

\* the gesture-mode loop, from sampled point i on
RECURSIVE CheckGeometricFrom(_, _, _, _, _, _, _)
CheckGeometricFrom(s, i, inputSize, xs, ys, ts, garbage) ==
    IF i >= s.mSampledInputSize THEN TRUE
    ELSE LET index == s.mInputIndice[i + 1] IN
         IF \/ index > inputSize
            \/ ReadAt(xs, index, garbage[1]) # s.mSampledInputXs[i + 1]
            \/ ReadAt(ys, index, garbage[2]) # s.mSampledInputYs[i + 1]
            \/ ReadAt(ts, index, garbage[3]) # s.mTimes[i + 1]
         THEN FALSE
         ELSE CheckGeometricFrom(s, i + 1, inputSize, xs, ys, ts, garbage)

\* the tap-mode loop without its i < MAX_WORD_LENGTH bound
RECURSIVE CheckTapFrom_Unbounded(_, _, _, _)
CheckTapFrom_Unbounded(s, i, xs, ys) ==
    IF ~(i < s.mSampledInputSize) THEN TRUE
    ELSE IF \/ xs[i + 1] # s.mSampledInputXs[i + 1]
            \/ ys[i + 1] # s.mSampledInputYs[i + 1]
         THEN FALSE
         ELSE CheckTapFrom_Unbounded(s, i + 1, xs, ys)

\* the tap-mode loop, from sampled point i on
RECURSIVE CheckTapFrom(_, _, _, _)
CheckTapFrom(s, i, xs, ys) ==
    IF ~(i < s.mSampledInputSize /\ i < MAX_WORD_LENGTH) THEN TRUE
    ELSE IF \/ xs[i + 1] # s.mSampledInputXs[i + 1]
            \/ ys[i + 1] # s.mSampledInputYs[i + 1]
         THEN FALSE
         ELSE CheckTapFrom(s, i + 1, xs, ys)

\* lines 246-252: the indices at which the gesture-mode loop reads the new
\* streams, from sampled point i on; the x stream is read first, and the
\* loop ends with the first sampled point that does not match
RECURSIVE GeometricReadsFrom(_, _, _, _, _, _, _)
GeometricReadsFrom(s, i, inputSize, xs, ys, ts, garbage) ==
    IF i >= s.mSampledInputSize THEN {}
    ELSE LET index == s.mInputIndice[i + 1] IN
         IF index > inputSize THEN {}
         ELSE {index}
              \cup (IF \/ ReadAt(xs, index, garbage[1]) # s.mSampledInputXs[i + 1]
                       \/ ReadAt(ys, index, garbage[2]) # s.mSampledInputYs[i + 1]
                       \/ ReadAt(ts, index, garbage[3]) # s.mTimes[i + 1]
                    THEN {}
                    ELSE GeometricReadsFrom(s, i + 1, inputSize, xs, ys, ts, garbage))

\* lines 258-263: the indices at which the tap-mode loop reads the new
\* streams, from sampled point i on
RECURSIVE TapReadsFrom(_, _, _, _)
TapReadsFrom(s, i, xs, ys) ==
    IF ~(i < s.mSampledInputSize /\ i < MAX_WORD_LENGTH) THEN {}
    ELSE {i}
         \cup (IF \/ xs[i + 1] # s.mSampledInputXs[i + 1]
                  \/ ys[i + 1] # s.mSampledInputYs[i + 1]
               THEN {}
               ELSE TapReadsFrom(s, i + 1, xs, ys))

\* lines 245-264: the indices of the new streams that one call reads
StreamReads(s, inputSize, xs, ys, ts, isGeometric, garbage) ==
    IF isGeometric
    THEN GeometricReadsFrom(s, 0, inputSize, xs, ys, ts, garbage)
    ELSE IF inputSize < s.mSampledInputSize
         THEN {}
         ELSE TapReadsFrom(s, 0, xs, ys)

checkAndReturnIsContinuationPossible(s, inputSize, xs, ys, ts, isGeometric, garbage) ==
    IF isGeometric
    THEN CheckGeometricFrom(s, 0, inputSize, xs, ys, ts, garbage)
    ELSE IF inputSize < s.mSampledInputSize
         THEN FALSE
         ELSE CheckTapFrom(s, 0, xs, ys)

(***************************************************************************)
(* ProximityInfoStateUtils (proximity_info_state_utils.cpp is not part of  *)
(* the sources at hand): the sampler and the gesture-mode feature updates, *)
(* from what the design says of them.                                      *)
(***************************************************************************)
\* popInputData: the last sampled point leaves the five parallel vectors
popInputData(s) == [s EXCEPT
    !.mSampledInputXs = PopBack(@),
    !.mSampledInputYs = PopBack(@),
    !.mTimes = PopBack(@),
    !.mLengthCache = PopBack(@),
    !.mInputIndice = PopBack(@)]

\* pushTouchPoint: in gesture mode (doSampling) a point closer than a key
\* width to the last sampled point is skipped unless it ends the stream
pushTouchPoint(s, inputIndex, x, y, time, doSampling, isLastPoint) ==
    LET n == Len(s.mSampledInputXs)
        skip == /\ doSampling
                /\ n > 0
                /\ ~isLastPoint
                /\ getDistanceInt(x, y, s.mSampledInputXs[n], s.mSampledInputYs[n])
                       <= getMostCommonKeyWidth
        length == IF n = 0 THEN 0
                  ELSE s.mLengthCache[n]
                       + getDistanceInt(x, y, s.mSampledInputXs[n], s.mSampledInputYs[n])
    IN IF skip THEN s
       ELSE [s EXCEPT
                !.mSampledInputXs = Append(@, x),
                !.mSampledInputYs = Append(@, y),
                !.mTimes = Append(@, time),
                !.mLengthCache = Append(@, length),
                !.mInputIndice = Append(@, inputIndex)]

\* updateTouchPoints: the points of this pointer, from pushTouchPointStartIndex on
RECURSIVE UpdateTouchPointsFrom(_, _, _, _, _, _, _)
UpdateTouchPointsFrom(s, i, xs, ys, ts, isGeometric, pointerId) ==
    IF i >= Len(xs) THEN s
    ELSE LET pushed == IF pointerId = 0
                       THEN pushTouchPoint(s, i, xs[i + 1], ys[i + 1], ts[i + 1],
                                           isGeometric, i = Len(xs) - 1)
                       ELSE s
         IN Strict(pushed, UpdateTouchPointsFrom(pushed, i + 1, xs, ys, ts,
                                                 isGeometric, pointerId))

updateTouchPoints(s, xs, ys, ts, isGeometric, pointerId, pushTouchPointStartIndex) ==
    LET r == UpdateTouchPointsFrom(s, pushTouchPointStartIndex, xs, ys, ts,
                                   isGeometric, pointerId)
    IN [r EXCEPT !.mSampledInputSize = Len(r.mSampledInputXs)]

\* sign of a difference, for the direction between two sampled points
Sign(d) == IF d > 0 THEN 1 ELSE IF d < 0 THEN -1 ELSE 0

\* refreshSpeedRates: the spacing of each new point and the direction to its successor
refreshSpeedRates(s, lastSavedInputSize) ==
    LET n == s.mSampledInputSize IN
    [s EXCEPT
        !.mSpeedRates = [i \in 1..n |->
            IF i - 1 >= lastSavedInputSize
            THEN IF i = 1 THEN 0 ELSE s.mLengthCache[i] - s.mLengthCache[i - 1]
            ELSE Resize(@, n, 0)[i]],
        !.mDirections = [i \in 1..(n - 1) |->
            IF i - 1 >= Max2(0, lastSavedInputSize - 1)
            THEN <<Sign(s.mSampledInputXs[i + 1] - s.mSampledInputXs[i]),
                   Sign(s.mSampledInputYs[i + 1] - s.mSampledInputYs[i])>>
            ELSE Resize(@, n - 1, <<0, 0>>)[i]]]

\* refreshBeelineSpeedRates: straight-line distance to the last point as a
\* percentage of the path length to it, recomputed for every point
refreshBeelineSpeedRates(s) ==
    LET n == s.mSampledInputSize IN
    [s EXCEPT !.mBeelineSpeedPercentiles = [i \in 1..n |->
        LET path == s.mLengthCache[n] - s.mLengthCache[i]
        IN IF path <= 0 THEN 0
           ELSE (100 * getDistanceInt(s.mSampledInputXs[i], s.mSampledInputYs[i],
                                      s.mSampledInputXs[n], s.mSampledInputYs[n]))
                    \div path]]

\* the entries of one distribution after key number k: a near key costs its
\* cached distance
RECURSIVE KeyEntriesFrom(_, _, _)
KeyEntriesFrom(s, i, k) ==
    IF k >= getKeyCount THEN <<>>
    ELSE (IF k \in s.mNearKeysVector[i + 1]
          THEN <<[key |-> k, value |-> 10 * s.mDistanceCache_G[i * getKeyCount + k + 1]]>>
          ELSE <<>>)
         \o KeyEntriesFrom(s, i, k + 1)

\* updateAlignPointProbabilities: for each new point the skip entry (the
\* slower the stroke at the point, the cheaper) and one entry per near key
updateAlignPointProbabilities(s, lastSavedInputSize) ==
    LET n == s.mSampledInputSize IN
    [s EXCEPT !.mCharProbabilities = [i \in 1..n |->
        IF i - 1 >= lastSavedInputSize
        THEN <<[key |-> NOT_AN_INDEX, value |-> 10 * s.mSpeedRates[i]]>>
             \o KeyEntriesFrom(s, i - 1, 0)
        ELSE Resize(@, n, <<>>)[i]]]


(***************************************************************************)
(* initInputParams, lines 36-240, in the order of the code.                *)
(***************************************************************************)
\* the near-key test with <= for <
IsNearKey_AtMost(normalizedSquaredDistance) ==
    normalizedSquaredDistance <= NEAR_KEY_NORMALIZED_SQUARED_THRESHOLD

\* line 134: the test that makes key k a near key of a point
IsNearKey(normalizedSquaredDistance) ==
    normalizedSquaredDistance < NEAR_KEY_NORMALIZED_SQUARED_THRESHOLD

\* lines 148-150: static_cast<int>(hypotf(width, height) * READ_FORWORD_LENGTH_SCALE)
readForwordLength ==
    ISqrt((Square(READ_FORWORD_LENGTH_SCALE)
              * (Square(getKeyboardWidth) + Square(getKeyboardHeight))) \div 10000)

\* the clearing that leaves the distance cache and the key vectors alone
PopOrClear_KeepCaches(s, isContinuationPossible) ==
    IF isContinuationPossible /\ Len(s.mInputIndice) > 1
    THEN popInputData(popInputData(s))
    ELSE [s EXCEPT
            !.mSampledInputXs = <<>>,
            !.mSampledInputYs = <<>>,
            !.mTimes = <<>>,
            !.mInputIndice = <<>>,
            !.mLengthCache = <<>>,
            !.mSpeedRates = <<>>,
            !.mBeelineSpeedPercentiles = <<>>,
            !.mCharProbabilities = <<>>,
            !.mDirections = <<>>]

\* a valid continuation of a single sampled point keeps the point instead of
\* clearing: the size test of line 64 is "> 0" and nothing is popped from one
PopOrClear_KeepOnePoint(s, isContinuationPossible) ==
    IF isContinuationPossible /\ Len(s.mInputIndice) > 1
    THEN popInputData(popInputData(s))
    ELSE IF isContinuationPossible /\ Len(s.mInputIndice) > 0
    THEN s
    ELSE [s EXCEPT
            !.mSampledInputXs = <<>>,
            !.mSampledInputYs = <<>>,
            !.mTimes = <<>>,
            !.mInputIndice = <<>>,
            !.mLengthCache = <<>>,
            !.mDistanceCache_G = <<>>,
            !.mNearKeysVector = <<>>,
            !.mSearchKeysVector = <<>>,
            !.mSpeedRates = <<>>,
            !.mBeelineSpeedPercentiles = <<>>,
            !.mCharProbabilities = <<>>,
            !.mDirections = <<>>]

\* lines 64-85: pop the two most recent points, or clear all data
PopOrClear(s, isContinuationPossible) ==
    IF isContinuationPossible /\ Len(s.mInputIndice) > 1
    THEN popInputData(popInputData(s))
    ELSE [s EXCEPT
            !.mSampledInputXs = <<>>,
            !.mSampledInputYs = <<>>,
            !.mTimes = <<>>,
            !.mInputIndice = <<>>,
            !.mLengthCache = <<>>,
            !.mDistanceCache_G = <<>>,
            !.mNearKeysVector = <<>>,
            !.mSearchKeysVector = <<>>,
            !.mSpeedRates = <<>>,
            !.mBeelineSpeedPercentiles = <<>>,
            !.mCharProbabilities = <<>>,
            !.mDirections = <<>>]

\* resampling resumed at the most recent point, mInputIndice[size - 1]
PushTouchPointStartIndex_MostRecent(s, isContinuationPossible) ==
    IF isContinuationPossible /\ Len(s.mInputIndice) > 1
    THEN s.mInputIndice[Len(s.mInputIndice)]
    ELSE 0

\* line 67: where resampling resumes
PushTouchPointStartIndex(s, isContinuationPossible) ==
    IF isContinuationPossible /\ Len(s.mInputIndice) > 1
    THEN s.mInputIndice[Len(s.mInputIndice) - 1]
    ELSE 0

\* line 70: the number of sampled points kept from the previous call
LastSavedInputSize(s, isContinuationPossible) ==
    IF isContinuationPossible /\ Len(s.mInputIndice) > 1
    THEN Len(PopOrClear(s, isContinuationPossible).mSampledInputXs)
    ELSE 0

\* the vectors are emptied before they are resized: what was cached for the
\* kept points is lost
UpdateNearKeys_ClearKept(s, lastSavedInputSize) ==
    LET n == s.mSampledInputSize
        keyCount == getKeyCount
        cache == [p \in 1..(n * keyCount) |->
            LET i == (p - 1) \div keyCount
                k == (p - 1) % keyCount
            IN IF i >= lastSavedInputSize
               THEN getNormalizedSquaredDistanceFromCenterFloatG(
                        k, s.mSampledInputXs[i + 1], s.mSampledInputYs[i + 1])
               ELSE 0]
    IN [s EXCEPT
           !.mDistanceCache_G = cache,
           !.mSearchKeysVector = Resize(@, n, {}),
           !.mNearKeysVector = [i \in 1..n |->
               IF i - 1 >= lastSavedInputSize
               THEN {k \in KeyIds : IsNearKey(cache[(i - 1) * keyCount + k + 1])}
               ELSE {}]]

\* lines 119-138: the distance cache and the near keys of the new points
UpdateNearKeys(s, lastSavedInputSize) ==
    LET n == s.mSampledInputSize
        keyCount == getKeyCount
        cache == [p \in 1..(n * keyCount) |->
            LET i == (p - 1) \div keyCount
                k == (p - 1) % keyCount
            IN IF i >= lastSavedInputSize
               THEN getNormalizedSquaredDistanceFromCenterFloatG(
                        k, s.mSampledInputXs[i + 1], s.mSampledInputYs[i + 1])
               ELSE Resize(s.mDistanceCache_G, n * keyCount, 0)[p]]
    IN [s EXCEPT
           !.mDistanceCache_G = cache,
           !.mSearchKeysVector = Resize(@, n, {}),
           !.mNearKeysVector = [i \in 1..n |->
               IF i - 1 >= lastSavedInputSize
               THEN {k \in KeyIds : IsNearKey(cache[(i - 1) * keyCount + k + 1])}
               ELSE Resize(@, n, {})[i]]]

\* the scan that stops only once the length delta is more than the bound
RECURSIVE SearchKeysScan_PastBound(_, _, _)
SearchKeysScan_PastBound(s, i, j) ==
    IF j >= s.mSampledInputSize THEN {}
    ELSE IF s.mLengthCache[j + 1] - s.mLengthCache[i + 1] > readForwordLength
         THEN {}
         ELSE s.mNearKeysVector[j + 1] \cup SearchKeysScan_PastBound(s, i, j + 1)

\* lines 155-160: what the scan of point i adds to mSearchKeysVector[i] from
\* point j on
RECURSIVE SearchKeysScan(_, _, _)
SearchKeysScan(s, i, j) ==
    IF j >= s.mSampledInputSize THEN {}
    ELSE IF s.mLengthCache[j + 1] - s.mLengthCache[i + 1] >= readForwordLength
         THEN {}
         ELSE s.mNearKeysVector[j + 1] \cup SearchKeysScan(s, i, j + 1)

\* lines 151-161: the search keys of every point
UpdateSearchKeys(s, lastSavedInputSize) ==
    [s EXCEPT !.mSearchKeysVector = [i \in 1..s.mSampledInputSize |->
        (IF i - 1 >= lastSavedInputSize THEN {} ELSE @[i])
            \cup SearchKeysScan(s, i - 1, Max2(i - 1, lastSavedInputSize))]]

\* getProximityCodePointsAt: the MAX_PROXIMITY_CHARS_SIZE code points of
\* input index; a row initializeProximities did not fill is all zero
getProximityCodePointsAt(s, index) ==
    IF index + 1 \in DOMAIN s.mInputProximities
    THEN s.mInputProximities[index + 1]
    ELSE [j \in 1..MAX_PROXIMITY_CHARS_SIZE |-> 0]

\* hasInputCoordinates (header)
hasInputCoordinates(s) == Len(s.mSampledInputXs) > 0 /\ Len(s.mSampledInputYs) > 0

\* getPrimaryCodePointAt (header)
getPrimaryCodePointAt(s, index) == getProximityCodePointsAt(s, index)[1]

\* lines 391-398
calculateSquaredDistanceFromSweetSpotCenter(s, keyIndex, inputIndex) ==
    LET sweetSpotCenterX == getSweetSpotCenterXAt(keyIndex)
        sweetSpotCenterY == getSweetSpotCenterYAt(keyIndex)
        inputX == s.mSampledInputXs[inputIndex + 1]
        inputY == s.mSampledInputYs[inputIndex + 1]
    IN Square(inputX - sweetSpotCenterX) + Square(inputY - sweetSpotCenterY)

\* the function without the test of the coordinate
calculateNormalizedSquaredDistance_AnyCoordinate(s, keyIndex, inputIndex) ==
    IF keyIndex = NOT_AN_INDEX THEN NOT_A_DISTANCE_FLOAT
    ELSE IF ~hasSweetSpotData(keyIndex) THEN NOT_A_DISTANCE_FLOAT
    ELSE LET squaredDistance ==
                 calculateSquaredDistanceFromSweetSpotCenter(s, keyIndex, inputIndex)
             squaredRadius == Square(getSweetSpotRadiiAt(keyIndex))
         IN (squaredDistance * 1024) \div squaredRadius

\* lines 268-283; the result is in 1024ths
calculateNormalizedSquaredDistance(s, keyIndex, inputIndex) ==
    IF keyIndex = NOT_AN_INDEX THEN NOT_A_DISTANCE_FLOAT
    ELSE IF ~hasSweetSpotData(keyIndex) THEN NOT_A_DISTANCE_FLOAT
    ELSE IF NOT_A_COORDINATE = s.mSampledInputXs[inputIndex + 1] THEN NOT_A_DISTANCE_FLOAT
    ELSE LET squaredDistance ==
                 calculateSquaredDistanceFromSweetSpotCenter(s, keyIndex, inputIndex)
             squaredRadius == Square(getSweetSpotRadiiAt(keyIndex))
         IN (squaredDistance * 1024) \div squaredRadius

\* memset of an int with the byte value: the int whose four bytes are the
\* low byte of value
MemsetInt(value) ==
    LET byte == value % 256
    IN (IF byte >= 128 THEN byte - 256 ELSE byte) * 16777216 + byte * 65793

\* lines 214-229: the entries of row i of mNormalizedSquaredDistances from
\* position j on, written while the proximity code points are positive
RECURSIVE NormalizedSquaredDistancesFrom(_, _, _, _)
NormalizedSquaredDistancesFrom(s, i, j, row) ==
    LET proximityCodePoints == getProximityCodePointsAt(s, i)
    IN IF j < MAX_PROXIMITY_CHARS_SIZE /\ proximityCodePoints[j + 1] > 0
       THEN LET currentCodePoint == proximityCodePoints[j + 1]
                squaredDistance ==
                    IF hasInputCoordinates(s)
                    THEN calculateNormalizedSquaredDistance(
                             s, getKeyIndexOf(currentCodePoint), i)
                    ELSE NOT_A_DISTANCE_FLOAT
                entry == IF squaredDistance >= 0
                         THEN (squaredDistance * NORMALIZED_SQUARED_DISTANCE_SCALING_FACTOR)
                                  \div 1024
                         ELSE IF j = 0 THEN EQUIVALENT_CHAR_WITHOUT_DISTANCE_INFO
                              ELSE PROXIMITY_CHAR_WITHOUT_DISTANCE_INFO
            IN NormalizedSquaredDistancesFrom(s, i, j + 1, [row EXCEPT ![j + 1] = entry])
       ELSE row

\* lines 196-235.  mNormalizedSquaredDistances holds the rows of the sampled
\* points, mPrimaryInputWord the entries of the inputs; every entry of the
\* arrays behind them is as memset left it
UpdateNormalizedSquaredDistances(s, inputSize, isGeometric, pointerId) ==
    LET cleared == [j \in 1..MAX_PROXIMITY_CHARS_SIZE |-> MemsetInt(NOT_A_DISTANCE)]
        enabled == s.mSampledInputSize > 0 /\ hasTouchPositionCorrectionData
    IN [s EXCEPT
           !.mTouchPositionCorrectionEnabled = enabled,
           !.mPrimaryInputWord =
               [i \in 1..inputSize |->
                   IF ~isGeometric /\ pointerId = 0
                   THEN getPrimaryCodePointAt(s, i - 1)
                   ELSE 0],
           !.mNormalizedSquaredDistances =
               [i \in 1..s.mSampledInputSize |->
                   IF ~isGeometric /\ pointerId = 0 /\ enabled
                   THEN NormalizedSquaredDistancesFrom(s, i - 1, 0, cleared)
                   ELSE cleared]]

\* the whole call; garbage is what lies behind the end of the new streams
initInputParams(s, pointerId, maxPointToKeyLength, xs, ys, ts, isGeometric, garbage) ==
    LET isContinuationPossible == checkAndReturnIsContinuationPossible(
            s, Len(xs), xs, ys, ts, isGeometric, garbage)
        pushTouchPointStartIndex == PushTouchPointStartIndex(s, isContinuationPossible)
        lastSavedInputSize == LastSavedInputSize(s, isContinuationPossible)
        s1 == [PopOrClear(s, isContinuationPossible) EXCEPT
                  !.mIsContinuationPossible = isContinuationPossible,
                  !.mInputProximities = IF ~isGeometric /\ pointerId = 0
                                        THEN initializeProximities(xs, ys)
                                        ELSE <<>>,
                  !.mMaxPointToKeyLength = maxPointToKeyLength,
                  !.mSampledInputSize = 0]
        s2 == updateTouchPoints(s1, xs, ys, ts, isGeometric, pointerId,
                                pushTouchPointStartIndex)
        s3 == IF s2.mSampledInputSize > 0 /\ isGeometric
              THEN refreshBeelineSpeedRates(refreshSpeedRates(s2, lastSavedInputSize))
              ELSE s2
        s4 == IF s3.mSampledInputSize > 0
              THEN UpdateNearKeys(s3, lastSavedInputSize)
              ELSE s3
    \* the session of line 195 is a value before the table is filled from it
    IN CHOOSE r \in
           {UpdateNormalizedSquaredDistances(v, Len(xs), isGeometric, pointerId) :
               v \in {IF s4.mSampledInputSize > 0 /\ isGeometric
                      THEN UpdateSearchKeys(
                               updateAlignPointProbabilities(s4, lastSavedInputSize),
                               lastSavedInputSize)
                      ELSE s4}} : TRUE

(***************************************************************************)
(* The caller.  It collects the touch points of a gesture, may start a new *)
(* gesture, and calls initInputParams with the stream collected so far.    *)
(***************************************************************************)
\* times of a stream of n points on a clock that started at base
TimesOf(n, base) == [k \in 1..n |-> 10 * k + base]

\* what can lie behind the end of the streams: something no sample equals,
\* or the values of a stored sample whose original index is the new input size
GarbageChoices(s, inputSize) ==
    {<<NOT_A_COORDINATE, NOT_A_COORDINATE, -1>>}
    \cup {<<s.mSampledInputXs[i], s.mSampledInputYs[i], s.mTimes[i]>> :
             i \in {j \in 1..s.mSampledInputSize : s.mInputIndice[j] = inputSize}}

\* no query is in progress
NoQuery == [op |-> "none"]

\* the five parallel vectors of the touch sample buffer
SampleBuffer(s) == [xs |-> s.mSampledInputXs, ys |-> s.mSampledInputYs,
                    times |-> s.mTimes, lengths |-> s.mLengthCache,
                    indice |-> s.mInputIndice]

\* lastCall before the first call.  previousSize is mSampledInputSize at
\* entry, afterPop the sample buffer when resampling starts (line 92),
\* onlyGeometric whether this and every earlier call was in gesture mode,
\* onePointer whether this and every earlier call was for the same pointer.
NoCall == [isGeometric |-> FALSE, pointerId |-> 0, xs |-> <<>>, ys |-> <<>>,
           ts |-> <<>>, garbage |-> <<NOT_A_COORDINATE, NOT_A_COORDINATE, -1>>,
           pushTouchPointStartIndex |-> 0, lastSavedInputSize |-> 0,
           previousSize |-> 0, afterPop |-> SampleBuffer(FreshState),
           onlyGeometric |-> TRUE, onePointer |-> TRUE]

Init ==
    /\ inputXs = <<>>
    /\ inputYs = <<>>
    /\ mSampledInputSize = FreshState.mSampledInputSize
    /\ mSampledInputXs = FreshState.mSampledInputXs
    /\ mSampledInputYs = FreshState.mSampledInputYs
    /\ mTimes = FreshState.mTimes
    /\ mInputIndice = FreshState.mInputIndice
    /\ mLengthCache = FreshState.mLengthCache
    /\ mDistanceCache_G = FreshState.mDistanceCache_G
    /\ mNearKeysVector = FreshState.mNearKeysVector
    /\ mSearchKeysVector = FreshState.mSearchKeysVector
    /\ mSpeedRates = FreshState.mSpeedRates
    /\ mDirections = FreshState.mDirections
    /\ mBeelineSpeedPercentiles = FreshState.mBeelineSpeedPercentiles
    /\ mCharProbabilities = FreshState.mCharProbabilities
    /\ mIsContinuationPossible = FreshState.mIsContinuationPossible
    /\ mMaxPointToKeyLength = FreshState.mMaxPointToKeyLength
    /\ mInputProximities = FreshState.mInputProximities
    /\ mNormalizedSquaredDistances = FreshState.mNormalizedSquaredDistances
    /\ mPrimaryInputWord = FreshState.mPrimaryInputWord
    /\ mTouchPositionCorrectionEnabled = FreshState.mTouchPositionCorrectionEnabled
    /\ query = NoQuery
    /\ answer = NoQuery
    /\ lastCall = NoCall
    /\ calls = 0

\* a touch-move event: one more point, away from the last one
TouchMove ==
    /\ calls < MaxCalls
    /\ Len(inputXs) < MaxInput
    /\ \E p \in PointSet :
          /\ Len(inputXs) > 0 => p # <<inputXs[Len(inputXs)], inputYs[Len(inputYs)]>>
          /\ inputXs' = Append(inputXs, p[1])
          /\ inputYs' = Append(inputYs, p[2])
    /\ UNCHANGED <<sessionVars, lastCall, calls, query, answer>>

\* touch-down of a new gesture: the stream starts over
TouchDown ==
    /\ calls < MaxCalls
    /\ Len(inputXs) > 0
    /\ inputXs' = <<>>
    /\ inputYs' = <<>>
    /\ UNCHANGED <<sessionVars, lastCall, calls, query, answer>>

\* the session takes the value r
SetState(r) ==
    /\ mSampledInputSize' = r.mSampledInputSize
    /\ mSampledInputXs' = r.mSampledInputXs
    /\ mSampledInputYs' = r.mSampledInputYs
    /\ mTimes' = r.mTimes
    /\ mInputIndice' = r.mInputIndice
    /\ mLengthCache' = r.mLengthCache
    /\ mDistanceCache_G' = r.mDistanceCache_G
    /\ mNearKeysVector' = r.mNearKeysVector
    /\ mSearchKeysVector' = r.mSearchKeysVector
    /\ mSpeedRates' = r.mSpeedRates
    /\ mDirections' = r.mDirections
    /\ mBeelineSpeedPercentiles' = r.mBeelineSpeedPercentiles
    /\ mCharProbabilities' = r.mCharProbabilities
    /\ mIsContinuationPossible' = r.mIsContinuationPossible
    /\ mMaxPointToKeyLength' = r.mMaxPointToKeyLength
    /\ mInputProximities' = r.mInputProximities
    /\ mNormalizedSquaredDistances' = r.mNormalizedSquaredDistances
    /\ mPrimaryInputWord' = r.mPrimaryInputWord
    /\ mTouchPositionCorrectionEnabled' = r.mTouchPositionCorrectionEnabled

\* one call of initInputParams with the stream collected so far
InitInputParams ==
    /\ calls < MaxCalls
    /\ \E isGeometric \in BOOLEAN, pointerId \in PointerIds, base \in TimeBases,
          maxPointToKeyLength \in MaxPointToKeyLengths,
          garbage \in GarbageChoices(State, Len(inputXs)) :
          LET ts == TimesOf(Len(inputXs), base)
              cont == checkAndReturnIsContinuationPossible(
                          State, Len(inputXs), inputXs, inputYs, ts, isGeometric, garbage)
          IN /\ SetState(initInputParams(State, pointerId, maxPointToKeyLength,
                                         inputXs, inputYs, ts, isGeometric, garbage))
             /\ lastCall' = [isGeometric |-> isGeometric, pointerId |-> pointerId,
                             xs |-> inputXs, ys |-> inputYs, ts |-> ts,
                             garbage |-> garbage,
                             pushTouchPointStartIndex |->
                                 PushTouchPointStartIndex(State, cont),
                             lastSavedInputSize |-> LastSavedInputSize(State, cont),
                             previousSize |-> mSampledInputSize,
                             afterPop |-> SampleBuffer(PopOrClear(State, cont)),
                             onlyGeometric |-> lastCall.onlyGeometric /\ isGeometric,
                             onePointer |-> /\ lastCall.onePointer
                                            /\ calls > 0 => pointerId = lastCall.pointerId]
    /\ calls' = calls + 1
    /\ UNCHANGED <<inputXs, inputYs, query, answer>>

Next == TouchMove \/ TouchDown \/ InitInputParams

Spec == Init /\ [][Next]_vars


(***************************************************************************)
(* Properties of initInputParams, checked under Spec.                      *)
(***************************************************************************)
\* q starts with p
IsPrefix(p, q) == Len(p) <= Len(q) /\ SubSeq(q, 1, Len(p)) = p

\* the first n entries of each of the five parallel vectors of s
BufferPrefix(s, n) == [xs |-> SubSeq(s.mSampledInputXs, 1, n),
                       ys |-> SubSeq(s.mSampledInputYs, 1, n),
                       times |-> SubSeq(s.mTimes, 1, n),
                       lengths |-> SubSeq(s.mLengthCache, 1, n),
                       indice |-> SubSeq(s.mInputIndice, 1, n)]

\* the session a single call with the arguments of call c leaves from a fresh state
FromFresh(c, maxPointToKeyLength) ==
    initInputParams(FreshState, c.pointerId, maxPointToKeyLength, c.xs, c.ys, c.ts,
                    c.isGeometric, c.garbage)

\* what C1 compares: distance cache, near keys, search keys, distributions
GestureCaches(s) == [distances |-> s.mDistanceCache_G,
                     nearKeys |-> s.mNearKeysVector,
                     searchKeys |-> s.mSearchKeysVector,
                     probabilities |-> s.mCharProbabilities]

\* what C2 compares: every buffer of the session
ObservableBuffers(s) == [s EXCEPT !.mIsContinuationPossible = FALSE,
                                  !.mInputProximities = <<>>]

\* C1: in gesture mode, a call on a stream P from a fresh state followed by
\* a call on a stream S that starts with P (same points, same times, both
\* calls for the pointer of the stream) leaves the distance cache, the near-key sets, the search-key
\* sets and the probability distributions that a single call on S leaves
\* from a fresh state.
C1_ContinuationEquivalence ==
    [][(/\ calls = 1
        /\ calls' = 2
        /\ lastCall.isGeometric
        /\ lastCall'.isGeometric
        /\ lastCall.pointerId = 0
        /\ lastCall'.pointerId = 0
        /\ IsPrefix(lastCall.xs, lastCall'.xs)
        /\ IsPrefix(lastCall.ys, lastCall'.ys)
        /\ IsPrefix(lastCall.ts, lastCall'.ts))
       => GestureCaches(State') = GestureCaches(FromFresh(lastCall', mMaxPointToKeyLength'))]_vars

\* the stream of call c replays the samples stored in s: the design's
\* condition for a valid continuation (section 4.1).  A stored original
\* index at or behind the end of the new stream has nothing to match.
Replays(s, c) ==
    IF c.isGeometric
    THEN \A i \in 1..s.mSampledInputSize :
            LET index == s.mInputIndice[i] IN
            /\ index < Len(c.xs)
            /\ c.xs[index + 1] = s.mSampledInputXs[i]
            /\ c.ys[index + 1] = s.mSampledInputYs[i]
            /\ c.ts[index + 1] = s.mTimes[i]
    ELSE /\ Len(c.xs) >= s.mSampledInputSize
         /\ \A i \in 1..Min2(s.mSampledInputSize, MAX_WORD_LENGTH) :
               /\ c.xs[i] = s.mSampledInputXs[i]
               /\ c.ys[i] = s.mSampledInputYs[i]

\* C2: a call on a stream A from a fresh state followed by a call on a
\* stream B that does not replay A's stored samples leaves every buffer of
\* the session as a single call on B leaves it from a fresh state (both
\* calls for the pointer of the streams).
C2_InvalidationRoundTrip ==
    [][(/\ calls = 1
        /\ calls' = 2
        /\ lastCall.pointerId = 0
        /\ lastCall'.pointerId = 0
        /\ ~Replays(State, lastCall'))
       => ObservableBuffers(State')
              = ObservableBuffers(FromFresh(lastCall', mMaxPointToKeyLength'))]_vars

\* C5: a call that finds the continuation valid with n > 1 points sampled
\* before starts resampling with the first n - 2 entries of the five
\* parallel vectors and nothing else in them, reuses n - 2 points, resumes at
\* the original index stored for the second most recent point, and leaves
\* the first n - 2 entries as they were.
C5_PopTwo ==
    [][(/\ calls' = calls + 1
        /\ mIsContinuationPossible'
        /\ mSampledInputSize > 1)
       => LET n == mSampledInputSize IN
          /\ lastCall'.afterPop = BufferPrefix(State, n - 2)
          /\ lastCall'.lastSavedInputSize = n - 2
          /\ lastCall'.pushTouchPointStartIndex = mInputIndice[n - 1]
          /\ BufferPrefix(State', n - 2) = BufferPrefix(State, n - 2)
          /\ \A j \in (n - 1)..mSampledInputSize' :
                mInputIndice'[j] >= mInputIndice[n - 1]]_vars

\* a second call that popped two of four points and resampled a new tail
C5_Witness ==
    /\ calls = 2
    /\ mIsContinuationPossible
    /\ lastCall.previousSize = 4
    /\ lastCall.lastSavedInputSize = 2
    /\ lastCall.pushTouchPointStartIndex > 0
    /\ mSampledInputSize > 2

\* the keys near to the points from sampled point i on that lie less than
\* the look-ahead bound further along the path than point i
LookAheadUnion(i) ==
    UNION {mNearKeysVector[j] :
              j \in {l \in i..mSampledInputSize :
                        mLengthCache[l] - mLengthCache[i] < readForwordLength}}

\* C6: after gesture-mode calls only (the last one for the pointer of the
\* stream), the search keys of every sampled point are exactly the near keys
\* of the points from it on within the look-ahead bound (taken as the code
\* rounds it, to a whole number).
C6_SearchKeysAreLookAheadUnion ==
    (calls > 0 /\ lastCall.onlyGeometric /\ lastCall.pointerId = 0)
        => \A i \in 1..mSampledInputSize : mSearchKeysVector[i] = LookAheadUnion(i)

\* C7: key k is a near key of sampled point i exactly if the cached squared
\* normalized distance of (i, k) is below 4.0.
C7_ThresholdMonotonicity ==
    \A i \in 0..(mSampledInputSize - 1) : \A k \in 0..(getKeyCount - 1) :
        (k \in mNearKeysVector[i + 1]) <=> (mDistanceCache_G[i * getKeyCount + k + 1] < 4)

\* after a continued call: a kept point and a new point, one with a key at
\* exactly 4.0 (not near) and one with a near key
C7_Witness ==
    /\ calls = 2
    /\ lastCall.lastSavedInputSize >= 1
    /\ mSampledInputSize > lastCall.lastSavedInputSize
    /\ \E i \in 0..(mSampledInputSize - 1) : \E k \in KeyIds :
          /\ mDistanceCache_G[i * getKeyCount + k + 1] = 4
          /\ k \notin mNearKeysVector[i + 1]
    /\ \E i \in 0..(mSampledInputSize - 1) : \E k \in KeyIds :
          /\ i >= lastCall.lastSavedInputSize
          /\ k \in mNearKeysVector[i + 1]


(***************************************************************************)
(* checkAndReturnIsContinuationPossible as a function of the stored        *)
(* samples and the new streams: SpecCheck.  The stored samples are those a *)
(* first call leaves; the new streams are of the same family, shorter,     *)
(* equal or longer, with one point moved.  Sizes around MAX_WORD_LENGTH    *)
(* are among them.                                                         *)
(***************************************************************************)
StoredSizes == {0, 1, 2, 3, 47, 48, 49, 50}

\* the k-th point of a stroke: to and fro between A and B, or round A, B, C
PatternPoint(k, pattern) ==
    IF pattern = "AB"
    THEN IF k % 2 = 1 THEN <<0, 0>> ELSE <<4, 0>>
    ELSE IF k % 3 = 1 THEN <<0, 0>> ELSE IF k % 3 = 2 THEN <<4, 0>> ELSE <<4, 2>>

\* a point moved along x, or along y
MovedPoint(p, kind) == IF kind = "x" THEN <<4 - p[1], p[2]>> ELSE <<p[1], 2 - p[2]>>

\* coordinate c (1 for x, 2 for y) of the stroke of n points, point q moved
PatternStream(n, pattern, q, kind, c) ==
    [k \in 1..n |-> IF k = q THEN MovedPoint(PatternPoint(k, pattern), kind)[c]
                    ELSE PatternPoint(k, pattern)[c]]

\* where the moved point of a new stream of m points can be (0: nowhere)
MovedPositions(m) == {q \in {0, 1, 2, 3, 47, 48, 49, 50} : q <= m} \cup {m}

InitCheck ==
    /\ \E n \in StoredSizes, pattern \in {"AB", "ABC"}, wasGeometric \in BOOLEAN :
          /\ wasGeometric \/ n <= MAX_WORD_LENGTH
          /\ LET r == initInputParams(FreshState, 0, 5,
                          PatternStream(n, pattern, 0, "x", 1),
                          PatternStream(n, pattern, 0, "x", 2),
                          TimesOf(n, 0), wasGeometric, NoCall.garbage)
             IN /\ mSampledInputSize = r.mSampledInputSize
                /\ mSampledInputXs = r.mSampledInputXs
                /\ mSampledInputYs = r.mSampledInputYs
                /\ mTimes = r.mTimes
                /\ mInputIndice = r.mInputIndice
                /\ mLengthCache = r.mLengthCache
                /\ mDistanceCache_G = r.mDistanceCache_G
                /\ mNearKeysVector = r.mNearKeysVector
                /\ mSearchKeysVector = r.mSearchKeysVector
                /\ mSpeedRates = r.mSpeedRates
                /\ mDirections = r.mDirections
                /\ mBeelineSpeedPercentiles = r.mBeelineSpeedPercentiles
                /\ mCharProbabilities = r.mCharProbabilities
                /\ mIsContinuationPossible = r.mIsContinuationPossible
                /\ mMaxPointToKeyLength = r.mMaxPointToKeyLength
                /\ mInputProximities = r.mInputProximities
                /\ mNormalizedSquaredDistances = r.mNormalizedSquaredDistances
                /\ mPrimaryInputWord = r.mPrimaryInputWord
                /\ mTouchPositionCorrectionEnabled = r.mTouchPositionCorrectionEnabled
          /\ \E m \in {n - 1, n, n + 1}, kind \in {"x", "y"} :
                /\ m >= 0
                /\ \E q \in MovedPositions(m) :
                      /\ inputXs = PatternStream(m, pattern, q, kind, 1)
                      /\ inputYs = PatternStream(m, pattern, q, kind, 2)
    /\ lastCall = NoCall
    /\ calls = 0
    /\ query = NoQuery
    /\ answer = NoQuery

\* line 40: the check of the new streams against the stored samples
CheckContinuation ==
    /\ calls = 0
    /\ \E isGeometric \in BOOLEAN, base \in TimeBases,
          garbage \in GarbageChoices(State, Len(inputXs)) :
          LET ts == TimesOf(Len(inputXs), base) IN
          /\ mIsContinuationPossible' = checkAndReturnIsContinuationPossible(
                 State, Len(inputXs), inputXs, inputYs, ts, isGeometric, garbage)
          /\ lastCall' = [NoCall EXCEPT !.isGeometric = isGeometric,
                                        !.xs = inputXs, !.ys = inputYs, !.ts = ts,
                                        !.garbage = garbage,
                                        !.previousSize = mSampledInputSize]
    /\ calls' = 1
    /\ UNCHANGED <<inputXs, inputYs, mSampledInputSize, mSampledInputXs,
                   mSampledInputYs, mTimes, mInputIndice, mLengthCache,
                   mDistanceCache_G, mNearKeysVector, mSearchKeysVector, mSpeedRates,
                   mDirections, mBeelineSpeedPercentiles, mCharProbabilities,
                   mMaxPointToKeyLength, mInputProximities,
                   mNormalizedSquaredDistances, mPrimaryInputWord,
                   mTouchPositionCorrectionEnabled, query, answer>>

NextCheck == CheckContinuation

SpecCheck == InitCheck /\ [][NextCheck]_vars

\* C3: in gesture mode the check returns true exactly if every stored
\* sample's original index does not exceed the new input length and the new
\* streams hold the sample's x, y and time at that index.
C3_GestureContinuationValid ==
    (calls = 1 /\ lastCall.isGeometric)
        => (mIsContinuationPossible
               <=> \A i \in 1..mSampledInputSize :
                      LET index == mInputIndice[i] IN
                      /\ index <= Len(lastCall.xs)
                      /\ index + 1 \in DOMAIN lastCall.xs
                      /\ lastCall.xs[index + 1] = mSampledInputXs[i]
                      /\ lastCall.ys[index + 1] = mSampledInputYs[i]
                      /\ lastCall.ts[index + 1] = mTimes[i])

\* C4: in tap mode the check returns true exactly if the new input is at
\* least as long as the stored samples and the first min(sampledInputSize,
\* MAX_WORD_LENGTH) x and y of the new streams equal the stored ones; the
\* times play no part.
C4_TapContinuationValid ==
    (calls = 1 /\ ~lastCall.isGeometric)
        => (mIsContinuationPossible
               <=> /\ Len(lastCall.xs) >= mSampledInputSize
                   /\ \A i \in 1..Min2(mSampledInputSize, 48) :
                         /\ lastCall.xs[i] = mSampledInputXs[i]
                         /\ lastCall.ys[i] = mSampledInputYs[i])

\* a tap-mode check that found the continuation valid although the streams
\* differ from the stored samples behind the first MAX_WORD_LENGTH points
\* and carry other times
C4_Witness ==
    /\ calls = 1
    /\ ~lastCall.isGeometric
    /\ mIsContinuationPossible
    /\ mSampledInputSize > 48
    /\ \E i \in 49..mSampledInputSize : lastCall.xs[i] # mSampledInputXs[i]
    /\ lastCall.ts[1] # mTimes[1]


(***************************************************************************)
(* getMatchedProximityId, lines 334-384.                                   *)
(***************************************************************************)
\* toBaseLowerCase (char_utils): lower case without accent, here of
\* 'A' (65), 'B' (66) and a-grave (224); any other code point is itself
toBaseLowerCase(c) == IF c = 65 \/ c = 224 THEN 97 ELSE IF c = 66 THEN 98 ELSE c

\* lines 356-366 and 370-380: the scan of one tier from position j on;
\* at is where it stopped, matched whether it stopped on a match
RECURSIVE ScanProximityChars(_, _, _, _)
ScanProximityChars(currentCodePoints, j, c, baseLowerC) ==
    IF j < MAX_PROXIMITY_CHARS_SIZE
       /\ currentCodePoints[j + 1] > ADDITIONAL_PROXIMITY_CHAR_DELIMITER_CODE
    THEN IF currentCodePoints[j + 1] = baseLowerC \/ currentCodePoints[j + 1] = c
         THEN [at |-> j, matched |-> TRUE]
         ELSE ScanProximityChars(currentCodePoints, j + 1, c, baseLowerC)
    ELSE [at |-> j, matched |-> FALSE]

\* the function with the test of checkProximityChars moved to its start
getMatchedProximityId_FlagFirst(s, index, c, checkProximityChars, proximityIndex) ==
    LET currentCodePoints == getProximityCodePointsAt(s, index)
        firstCodePoint == currentCodePoints[1]
        baseLowerC == toBaseLowerCase(c)
        near == ScanProximityChars(currentCodePoints, 1, c, baseLowerC)
        additional == ScanProximityChars(currentCodePoints, near.at + 1, c, baseLowerC)
    IN IF ~checkProximityChars
       THEN [type |-> "UNRELATED_CHAR", proximityIndex |-> proximityIndex]
       ELSE IF firstCodePoint = baseLowerC \/ firstCodePoint = c
       THEN [type |-> "EQUIVALENT_CHAR", proximityIndex |-> proximityIndex]
       ELSE IF toBaseLowerCase(firstCodePoint) = baseLowerC
       THEN [type |-> "NEAR_PROXIMITY_CHAR", proximityIndex |-> proximityIndex]
       ELSE IF near.matched
       THEN [type |-> "NEAR_PROXIMITY_CHAR",
             proximityIndex |-> IF proximityIndex = <<>> THEN <<>> ELSE <<near.at>>]
       ELSE IF /\ near.at < MAX_PROXIMITY_CHARS_SIZE
               /\ currentCodePoints[near.at + 1] = ADDITIONAL_PROXIMITY_CHAR_DELIMITER_CODE
               /\ additional.matched
       THEN [type |-> "ADDITIONAL_PROXIMITY_CHAR",
             proximityIndex |-> IF proximityIndex = <<>> THEN <<>> ELSE <<additional.at>>]
       ELSE [type |-> "UNRELATED_CHAR", proximityIndex |-> proximityIndex]

\* the function that reports position 0 when the primary code point matches
\* by its base-lower form
getMatchedProximityId_AccentReported(s, index, c, checkProximityChars, proximityIndex) ==
    LET currentCodePoints == getProximityCodePointsAt(s, index)
        firstCodePoint == currentCodePoints[1]
        baseLowerC == toBaseLowerCase(c)
        near == ScanProximityChars(currentCodePoints, 1, c, baseLowerC)
        additional == ScanProximityChars(currentCodePoints, near.at + 1, c, baseLowerC)
    IN IF firstCodePoint = baseLowerC \/ firstCodePoint = c
       THEN [type |-> "EQUIVALENT_CHAR", proximityIndex |-> proximityIndex]
       ELSE IF ~checkProximityChars
       THEN [type |-> "UNRELATED_CHAR", proximityIndex |-> proximityIndex]
       ELSE IF toBaseLowerCase(firstCodePoint) = baseLowerC
       THEN [type |-> "NEAR_PROXIMITY_CHAR",
             proximityIndex |-> IF proximityIndex = <<>> THEN <<>> ELSE <<0>>]
       ELSE IF near.matched
       THEN [type |-> "NEAR_PROXIMITY_CHAR",
             proximityIndex |-> IF proximityIndex = <<>> THEN <<>> ELSE <<near.at>>]
       ELSE IF /\ near.at < MAX_PROXIMITY_CHARS_SIZE
               /\ currentCodePoints[near.at + 1] = ADDITIONAL_PROXIMITY_CHAR_DELIMITER_CODE
               /\ additional.matched
       THEN [type |-> "ADDITIONAL_PROXIMITY_CHAR",
             proximityIndex |-> IF proximityIndex = <<>> THEN <<>> ELSE <<additional.at>>]
       ELSE [type |-> "UNRELATED_CHAR", proximityIndex |-> proximityIndex]

\* proximityIndex is <<v>> for a pointer to a variable that holds v and <<>>
\* for a null pointer; the result is the type and the variable afterwards
getMatchedProximityId(s, index, c, checkProximityChars, proximityIndex) ==
    LET currentCodePoints == getProximityCodePointsAt(s, index)
        firstCodePoint == currentCodePoints[1]
        baseLowerC == toBaseLowerCase(c)
        near == ScanProximityChars(currentCodePoints, 1, c, baseLowerC)
        additional == ScanProximityChars(currentCodePoints, near.at + 1, c, baseLowerC)
    IN IF firstCodePoint = baseLowerC \/ firstCodePoint = c
       THEN [type |-> "EQUIVALENT_CHAR", proximityIndex |-> proximityIndex]
       ELSE IF ~checkProximityChars
       THEN [type |-> "UNRELATED_CHAR", proximityIndex |-> proximityIndex]
       ELSE IF toBaseLowerCase(firstCodePoint) = baseLowerC
       THEN [type |-> "NEAR_PROXIMITY_CHAR", proximityIndex |-> proximityIndex]
       ELSE IF near.matched
       THEN [type |-> "NEAR_PROXIMITY_CHAR",
             proximityIndex |-> IF proximityIndex = <<>> THEN <<>> ELSE <<near.at>>]
       ELSE IF /\ near.at < MAX_PROXIMITY_CHARS_SIZE
               /\ currentCodePoints[near.at + 1] = ADDITIONAL_PROXIMITY_CHAR_DELIMITER_CODE
               /\ additional.matched
       THEN [type |-> "ADDITIONAL_PROXIMITY_CHAR",
             proximityIndex |-> IF proximityIndex = <<>> THEN <<>> ELSE <<additional.at>>]
       ELSE [type |-> "UNRELATED_CHAR", proximityIndex |-> proximityIndex]

(***************************************************************************)
(* getMatchedProximityId as a function of the proximity list: SpecMatch.   *)
(* The list of input 0 is a primary code point, up to two near code        *)
(* points, perhaps the delimiter and up to two additional code points,     *)
(* then zeros, or 'z' (122) up to the end of the row.                      *)
(***************************************************************************)
\* the sequences over S of at most two elements
UpToTwo(S) == {<<>>} \cup {<<a>> : a \in S} \cup {<<a, b>> : a \in S, b \in S}

ProximityLists ==
    {<<p>> \o near \o additional :
        p \in {97, 65, 224, 98},
        near \in UpToTwo({97, 98, 99}),
        additional \in {<<>>} \cup {<<ADDITIONAL_PROXIMITY_CHAR_DELIMITER_CODE>> \o t :
                                      t \in UpToTwo({98, 100})}}

\* the row of MAX_PROXIMITY_CHARS_SIZE code points that starts with list
ProximityRow(list, filler) ==
    [j \in 1..MAX_PROXIMITY_CHARS_SIZE |-> IF j <= Len(list) THEN list[j] ELSE filler]

\* the characters asked for: a, A, a-grave, b, B, c, d, x
TargetChars == {97, 65, 224, 98, 66, 99, 100, 120}

\* the session's fields are those of r
SessionIs(r) ==
    /\ mSampledInputSize = r.mSampledInputSize
    /\ mSampledInputXs = r.mSampledInputXs
    /\ mSampledInputYs = r.mSampledInputYs
    /\ mTimes = r.mTimes
    /\ mInputIndice = r.mInputIndice
    /\ mLengthCache = r.mLengthCache
    /\ mDistanceCache_G = r.mDistanceCache_G
    /\ mNearKeysVector = r.mNearKeysVector
    /\ mSearchKeysVector = r.mSearchKeysVector
    /\ mSpeedRates = r.mSpeedRates
    /\ mDirections = r.mDirections
    /\ mBeelineSpeedPercentiles = r.mBeelineSpeedPercentiles
    /\ mCharProbabilities = r.mCharProbabilities
    /\ mIsContinuationPossible = r.mIsContinuationPossible
    /\ mMaxPointToKeyLength = r.mMaxPointToKeyLength
    /\ mInputProximities = r.mInputProximities
    /\ mNormalizedSquaredDistances = r.mNormalizedSquaredDistances
    /\ mPrimaryInputWord = r.mPrimaryInputWord
    /\ mTouchPositionCorrectionEnabled = r.mTouchPositionCorrectionEnabled

InitMatch ==
    /\ \E list \in ProximityLists, filler \in {0, 122} :
          SessionIs([FreshState EXCEPT
                       !.mInputProximities = <<ProximityRow(list, filler)>>])
    /\ inputXs = <<>>
    /\ inputYs = <<>>
    /\ lastCall = NoCall
    /\ calls = 0
    /\ query = NoQuery
    /\ answer = NoQuery

\* one call of getMatchedProximityId for input 0
MatchProximity ==
    /\ query = NoQuery
    /\ \E c \in TargetChars, checkProximityChars \in BOOLEAN,
          proximityIndex \in {<<>>, <<NOT_AN_INDEX>>} :
          /\ query' = [op |-> "getMatchedProximityId", index |-> 0, c |-> c,
                       checkProximityChars |-> checkProximityChars,
                       proximityIndex |-> proximityIndex]
          /\ answer' = getMatchedProximityId(State, 0, c, checkProximityChars,
                                             proximityIndex)
    /\ UNCHANGED <<inputXs, inputYs, sessionVars, lastCall, calls>>

NextMatch == MatchProximity

SpecMatch == InitMatch /\ [][NextMatch]_vars

\* the row the query is about, and where its tiers end: the near tier ends
\* at the first position from 1 on that holds a code point <= the delimiter
\* code, the additional tier at the next such position (0-based positions)
QueriedRow == mInputProximities[query.index + 1]

TierEnd(row, from) ==
    IF \E j \in from..(MAX_PROXIMITY_CHARS_SIZE - 1) : row[j + 1] <= ADDITIONAL_PROXIMITY_CHAR_DELIMITER_CODE
    THEN CHOOSE j \in from..(MAX_PROXIMITY_CHARS_SIZE - 1) :
            /\ row[j + 1] <= ADDITIONAL_PROXIMITY_CHAR_DELIMITER_CODE
            /\ \A l \in from..(j - 1) : row[l + 1] > ADDITIONAL_PROXIMITY_CHAR_DELIMITER_CODE
    ELSE MAX_PROXIMITY_CHARS_SIZE

\* the positions from..(to - 1) of row that hold c or its base-lower form
MatchesIn(row, from, to, c) ==
    {j \in from..(to - 1) : row[j + 1] = c \/ row[j + 1] = toBaseLowerCase(c)}

LeastOf(S) == CHOOSE j \in S : \A l \in S : j <= l

\* C8: the classification follows the priority order: equivalent if the
\* primary is c or its base-lower form; else unrelated if proximity checking
\* is off; else near if the primary's base-lower form is that of c; else
\* near at the first match of the near tier; else additional at the first
\* match behind the delimiter; else unrelated.
C8_ClassifierPriority ==
    (query # NoQuery) =>
        LET row == QueriedRow
            c == query.c
            nearEnd == TierEnd(row, 1)
            hasDelimiter == /\ nearEnd < MAX_PROXIMITY_CHARS_SIZE
                            /\ row[nearEnd + 1] = ADDITIONAL_PROXIMITY_CHAR_DELIMITER_CODE
            additionalEnd == IF hasDelimiter THEN TierEnd(row, nearEnd + 1) ELSE nearEnd
            nearMatches == MatchesIn(row, 1, nearEnd, c)
            additionalMatches == MatchesIn(row, nearEnd + 1, additionalEnd, c)
            reports(j) == query.proximityIndex = <<>> \/ answer.proximityIndex = <<j>>
        IN IF row[1] = c \/ row[1] = toBaseLowerCase(c)
           THEN answer.type = "EQUIVALENT_CHAR"
           ELSE IF ~query.checkProximityChars
           THEN answer.type = "UNRELATED_CHAR"
           ELSE IF toBaseLowerCase(row[1]) = toBaseLowerCase(c)
           THEN answer.type = "NEAR_PROXIMITY_CHAR"
           ELSE IF nearMatches # {}
           THEN answer.type = "NEAR_PROXIMITY_CHAR" /\ reports(LeastOf(nearMatches))
           ELSE IF additionalMatches # {}
           THEN /\ answer.type = "ADDITIONAL_PROXIMITY_CHAR"
                /\ reports(LeastOf(additionalMatches))
           ELSE answer.type = "UNRELATED_CHAR"

\* the list [primary, a, b, DELIM, c] asked for c: additional, at position 4
C8_Witness ==
    /\ query # NoQuery
    /\ query.checkProximityChars
    /\ QueriedRow[1] = 224
    /\ QueriedRow[2] = 98
    /\ QueriedRow[3] = 99
    /\ QueriedRow[4] = ADDITIONAL_PROXIMITY_CHAR_DELIMITER_CODE
    /\ QueriedRow[5] = 100
    /\ QueriedRow[6] = 0
    /\ query.c = 100
    /\ answer.type = "ADDITIONAL_PROXIMITY_CHAR"
    /\ answer.proximityIndex = <<4>>


(***************************************************************************)
(* getMostProbableString, lines 465-490.  A distribution is the sequence   *)
(* of its entries [key, value] in the order the hash map iterates them;    *)
(* log-probabilities are counted in tenths.                                *)
(***************************************************************************)
\* A sum of log-probabilities is wider than the model checker's integers:
\* it is kept as lengths MAX_POINT_TO_KEY_LENGTH plus tenths below one.
NoLogProbability == [lengths |-> 0, tenths |-> 0]

AddLogProbability(sum, logProbability) ==
    [lengths |-> sum.lengths
                 + (sum.tenths + logProbability) \div MAX_POINT_TO_KEY_LENGTH,
     tenths |-> (sum.tenths + logProbability) % MAX_POINT_TO_KEY_LENGTH]

\* the adjustment with the constant added to the skip entry instead
DemotedLogProbability_SkipDemoted(key, value) ==
    IF key = NOT_AN_INDEX THEN value + DEMOTION_LOG_PROBABILITY ELSE value

\* lines 475-476: the adjusted log-probability of an entry
DemotedLogProbability(key, value) ==
    IF key # NOT_AN_INDEX THEN value + DEMOTION_LOG_PROBABILITY ELSE value

\* lines 473-481: the scan of one distribution, from its entry e on
RECURSIVE MostProbableEntry(_, _, _, _)
MostProbableEntry(distribution, e, minLogProbability, character) ==
    IF e > Len(distribution)
    THEN [minLogProbability |-> minLogProbability, character |-> character]
    ELSE LET logProbability ==
                 DemotedLogProbability(distribution[e].key, distribution[e].value)
         IN IF logProbability < minLogProbability
            THEN MostProbableEntry(distribution, e + 1, logProbability,
                                   distribution[e].key)
            ELSE MostProbableEntry(distribution, e + 1, minLogProbability, character)

\* the loop condition with the whole buffer for code points
DecodeContinues_WholeBuffer(s, i, index) ==
    i < s.mSampledInputSize /\ index < MAX_WORD_LENGTH

\* line 470: the loop condition
DecodeContinues(s, i, index) ==
    i < s.mSampledInputSize /\ index < MAX_WORD_LENGTH - 1

\* lines 470-488 from sampled point i on; out holds index, the writes to
\* codePointBuf so far in order, the sum so far, and the character of each
\* point the loop went through
RECURSIVE MostProbableStringFrom(_, _, _)
MostProbableStringFrom(s, i, out) ==
    IF ~DecodeContinues(s, i, out.index)
    THEN [out EXCEPT !.writes = Append(@, [at |-> out.index, codePoint |-> 0])]
    ELSE LET best == MostProbableEntry(s.mCharProbabilities[i + 1], 1,
                                       MAX_POINT_TO_KEY_LENGTH, NOT_AN_INDEX)
             appended ==
                 IF best.character # NOT_AN_INDEX
                 THEN [out EXCEPT
                          !.writes = Append(@, [at |-> out.index,
                                                codePoint |-> getCodePointOf(best.character)]),
                          !.index = @ + 1]
                 ELSE out
             summed ==
                 [appended EXCEPT
                     !.sumLogProbability = AddLogProbability(@, best.minLogProbability),
                     !.characters = Append(@, best.character)]
         IN Strict(summed, MostProbableStringFrom(s, i + 1, summed))

\* the decoder with a sum that lives on from one call to the next
getMostProbableString_StaticSum(s) ==
    MostProbableStringFrom(s, 0, [index |-> 0, writes |-> <<>>,
                                  sumLogProbability |->
                                      IF query = NoQuery THEN NoLogProbability
                                      ELSE answer.sumLogProbability,
                                  characters |-> <<>>])

getMostProbableString(s) ==
    MostProbableStringFrom(s, 0, [index |-> 0, writes |-> <<>>,
                                  sumLogProbability |-> NoLogProbability,
                                  characters |-> <<>>])

(***************************************************************************)
(* getMostProbableString as a function of the distributions: SpecDecode.   *)
(* Every sampled point has a distribution; the distributions repeat a      *)
(* pattern of two.                                                         *)
(***************************************************************************)
MaxDecodeInput == 60

Entry(key, value) == [key |-> key, value |-> value]

Distributions ==
    { <<>>,
      <<Entry(NOT_AN_INDEX, 0)>>,
      <<Entry(1, 0)>>,
      <<Entry(NOT_AN_INDEX, 5), Entry(0, 2)>>,
      <<Entry(0, 2), Entry(NOT_AN_INDEX, 5)>>,
      <<Entry(NOT_AN_INDEX, 3), Entry(1, 2)>>,
      <<Entry(NOT_AN_INDEX, 5), Entry(0, 0), Entry(1, 0)>>,
      <<Entry(NOT_AN_INDEX, MAX_POINT_TO_KEY_LENGTH),
        Entry(0, MAX_POINT_TO_KEY_LENGTH - 1)>> }

InitDecode ==
    /\ \E n \in 0..MaxDecodeInput, d1 \in Distributions, d2 \in Distributions :
          SessionIs([FreshState EXCEPT
                       !.mSampledInputSize = n,
                       !.mCharProbabilities =
                           [i \in 1..n |-> IF i % 2 = 1 THEN d1 ELSE d2]])
    /\ inputXs = <<>>
    /\ inputYs = <<>>
    /\ lastCall = NoCall
    /\ calls = 0
    /\ query = NoQuery
    /\ answer = NoQuery


\* one call of getMostProbableString
Decode ==
    /\ query = NoQuery
    /\ query' = [op |-> "getMostProbableString"]
    /\ answer' = getMostProbableString(State)
    /\ UNCHANGED <<inputXs, inputYs, sessionVars, lastCall, calls>>

NextDecode == Decode

SpecDecode == InitDecode /\ [][NextDecode]_vars

\* the adjusted value of an entry when the constant is added to the skip
\* entry (skipDemoted) or to the real keys (~skipDemoted)
Adjusted(entry, skipDemoted) ==
    IF (entry.key = NOT_AN_INDEX) = skipDemoted
    THEN entry.value + DEMOTION_LOG_PROBABILITY
    ELSE entry.value

\* the lowest adjusted value of a distribution, capped by the maximum length
Lowest(distribution, skipDemoted) ==
    LET values == {MAX_POINT_TO_KEY_LENGTH}
                  \cup {Adjusted(distribution[e], skipDemoted) :
                          e \in 1..Len(distribution)}
    IN CHOOSE v \in values : \A w \in values : v <= w

\* the keys that may win a distribution: those of the entries with the
\* lowest adjusted value, or the skip key if no entry is below the maximum
WinningKeys(distribution, skipDemoted) ==
    IF Lowest(distribution, skipDemoted) = MAX_POINT_TO_KEY_LENGTH
    THEN {NOT_AN_INDEX}
    ELSE {distribution[e].key : e \in {l \in 1..Len(distribution) :
              Adjusted(distribution[l], skipDemoted)
                  = Lowest(distribution, skipDemoted)}}

\* the sum of the lowest adjusted values of the points from..to, as lengths
\* MAX_POINT_TO_KEY_LENGTH plus tenths
RECURSIVE SumOfLowest(_, _, _, _)
SumOfLowest(distributions, from, to, skipDemoted) ==
    IF from > to THEN NoLogProbability
    ELSE IF from = to
    THEN AddLogProbability(NoLogProbability, Lowest(distributions[from], skipDemoted))
    ELSE LET middle == (from + to) \div 2
             low == SumOfLowest(distributions, from, middle, skipDemoted)
             high == SumOfLowest(distributions, middle + 1, to, skipDemoted)
         IN [lengths |-> low.lengths + high.lengths
                         + (low.tenths + high.tenths) \div MAX_POINT_TO_KEY_LENGTH,
             tenths |-> (low.tenths + high.tenths) % MAX_POINT_TO_KEY_LENGTH]

\* the code points written ahead of the terminator
DecodedCodePoints ==
    [j \in 1..(Len(answer.writes) - 1) |-> answer.writes[j].codePoint]

IsRealKey(character) == character # NOT_AN_INDEX

\* the decoder went through the first p points, each won by an entry of
\* lowest adjusted value; it wrote the code points of the winners that are
\* real keys, in order from position 0, then the terminator, and returned
\* the sum of the lowest adjusted values of these p points
GreedyOver(p, skipDemoted) ==
    /\ Len(answer.characters) = p
    /\ \A i \in 1..p :
          answer.characters[i] \in WinningKeys(mCharProbabilities[i], skipDemoted)
    /\ LET keys == SelectSeq(answer.characters, IsRealKey)
       IN /\ DecodedCodePoints = [j \in 1..Len(keys) |-> getCodePointOf(keys[j])]
          /\ \A j \in 1..Len(answer.writes) : answer.writes[j].at = j - 1
          /\ answer.writes[Len(answer.writes)].codePoint = 0
    /\ answer.sumLogProbability = SumOfLowest(mCharProbabilities, 1, p, skipDemoted)

\* C9 as stated: every sampled point is decoded, the winner of each is the
\* entry of lowest adjusted value with the penalty added to the skip entry
\* and real keys unchanged; the winners that are real keys are appended and
\* the score is the sum of the winning adjusted values.
C9_AsStated ==
    (query # NoQuery) => GreedyOver(mSampledInputSize, TRUE)

\* C9: the sampled points are decoded in order until MAX_WORD_LENGTH - 1
\* code points are written; the winner of each is the entry of lowest
\* adjusted value, where a real key's value is its stored value plus the
\* penalty and the skip entry's value is unchanged; the winners that are
\* real keys are appended and the score is the sum of the winning adjusted
\* values of the points decoded.
C9_GreedySelection ==
    (query # NoQuery) =>
        LET p == Len(answer.characters)
            written == Len(DecodedCodePoints)
        IN /\ p <= mSampledInputSize
           /\ p < mSampledInputSize =>
                 /\ written = MAX_WORD_LENGTH - 1
                 /\ IsRealKey(answer.characters[p])
           /\ GreedyOver(p, FALSE)

\* a decoded gesture where the skip entry won a point against a real key of
\* lower stored value, and a real key won another point
C9_Witness ==
    /\ query # NoQuery
    /\ \E i \in 1..Len(answer.characters) :
          /\ answer.characters[i] = NOT_AN_INDEX
          /\ \E e \in 1..Len(mCharProbabilities[i]) :
                /\ mCharProbabilities[i][e].key # NOT_AN_INDEX
                /\ mCharProbabilities[i][e].value
                       < Lowest(mCharProbabilities[i], FALSE)
    /\ \E i \in 1..Len(answer.characters) : IsRealKey(answer.characters[i])

\* C10: the decoder writes at most MAX_WORD_LENGTH - 1 code points and then
\* one terminator, all of them below position MAX_WORD_LENGTH of the buffer.
C10_DecoderBound ==
    (query # NoQuery) =>
        /\ Len(answer.writes) - 1 <= MAX_WORD_LENGTH - 1
        /\ \A j \in 1..Len(answer.writes) :
              /\ answer.writes[j].at >= 0
              /\ answer.writes[j].at < MAX_WORD_LENGTH
              /\ (answer.writes[j].codePoint = 0) = (j = Len(answer.writes))

\* more sampled points won by real keys than the buffer holds: the decoder
\* stopped after MAX_WORD_LENGTH - 1 code points
C10_Witness ==
    /\ query # NoQuery
    /\ mSampledInputSize > MAX_WORD_LENGTH
    /\ Len(answer.characters) < mSampledInputSize
    /\ Len(answer.writes) = MAX_WORD_LENGTH
    /\ answer.writes[MAX_WORD_LENGTH].at = MAX_WORD_LENGTH - 1


(***************************************************************************)
(* Two calls of getMostProbableString on the same session: SpecDecodeTwice.*)
(***************************************************************************)
\* a second call of getMostProbableString; calls counts it
DecodeAgain ==
    /\ query # NoQuery
    /\ query.op = "getMostProbableString"
    /\ calls = 0
    /\ calls' = 1
    /\ answer' = getMostProbableString(State)
    /\ UNCHANGED <<inputXs, inputYs, sessionVars, lastCall, query>>

NextDecodeTwice == Decode \/ DecodeAgain

SpecDecodeTwice == InitDecode /\ [][NextDecodeTwice]_vars

MaxQueryInput == 3

\* the apostrophe and the hyphen are the code points a word may hold that no
\* key has to match
isSkippableCodePoint(codePoint) == codePoint = 39 \/ codePoint = 45

\* the float NaN, which no distance equals
NaN == -1

\* ProximityInfoUtils::pointToLineSegSquaredDistanceFloat: the squared
\* distance of (x, y) from the segment (x1, y1)-(x2, y2), or from the whole
\* line when extend; a segment of length 0 divides 0 by 0
pointToLineSegSquaredDistanceFloat(x, y, x1, y1, x2, y2, extend) ==
    LET ray1x == x - x1
        ray1y == y - y1
        ray2x == x2 - x1
        ray2y == y2 - y1
        dotProduct == ray1x * ray2x + ray1y * ray2y
        lineLengthSqr == Square(ray2x) + Square(ray2y)
    IN IF lineLengthSqr = 0 THEN NaN
       ELSE IF ~extend /\ dotProduct < 0 THEN Square(ray1x) + Square(ray1y)
       ELSE IF ~extend /\ dotProduct > lineLengthSqr
            THEN Square(x - x2) + Square(y - y2)
       ELSE Square(ray1x) + Square(ray1y)
            - (Square(dotProduct) \div lineLengthSqr)

\* a read of vec[index]; beyond is what the memory outside the vector holds
ReadVector(vec, index, beyond) ==
    IF index >= 0 /\ index < Len(vec)
    THEN [value |-> vec[index + 1], outOfBounds |-> FALSE]
    ELSE [value |-> beyond, outOfBounds |-> TRUE]

\* lines 285-290
getDuration(s, index) ==
    IF index >= 0 /\ index < s.mSampledInputSize - 1
    THEN LET later == ReadVector(s.mTimes, index + 1, 0)
             earlier == ReadVector(s.mTimes, index, 0)
         IN [value |-> later.value - earlier.value,
             outOfBounds |-> later.outOfBounds \/ earlier.outOfBounds]
    ELSE [value |-> 0, outOfBounds |-> FALSE]

\* getPointToKeyLength without the comparison with mMaxPointToKeyLength
getPointToKeyLength_Unclamped(s, inputIndex, codePoint, scale, beyond) ==
    LET keyId == getKeyIndexOf(codePoint)
    IN IF keyId # NOT_AN_INDEX
       THEN LET index == inputIndex * getKeyCount + keyId
                cached == ReadVector(s.mDistanceCache_G, index, beyond)
            IN [value |-> cached.value * scale, outOfBounds |-> cached.outOfBounds]
       ELSE IF isSkippableCodePoint(codePoint)
       THEN [value |-> 0, outOfBounds |-> FALSE]
       ELSE [value |-> MAX_POINT_TO_KEY_LENGTH, outOfBounds |-> FALSE]

\* lines 295-307; beyond is what lies outside mDistanceCache_G
getPointToKeyLength(s, inputIndex, codePoint, scale, beyond) ==
    LET keyId == getKeyIndexOf(codePoint)
    IN IF keyId # NOT_AN_INDEX
       THEN LET index == inputIndex * getKeyCount + keyId
                cached == ReadVector(s.mDistanceCache_G, index, beyond)
            IN [value |-> Min2(cached.value * scale, s.mMaxPointToKeyLength * 10),
                outOfBounds |-> cached.outOfBounds]
       ELSE IF isSkippableCodePoint(codePoint)
       THEN [value |-> 0, outOfBounds |-> FALSE]
       ELSE [value |-> MAX_POINT_TO_KEY_LENGTH, outOfBounds |-> FALSE]

\* lines 443-461
getLineToKeyDistance(s, from, to, keyId, extend) ==
    IF from < 0 \/ from > s.mSampledInputSize - 1
    THEN [value |-> 0, outOfBounds |-> FALSE]
    ELSE IF to < 0 \/ to > s.mSampledInputSize - 1
    THEN [value |-> 0, outOfBounds |-> FALSE]
    ELSE LET x0 == ReadVector(s.mSampledInputXs, from, 0)
             y0 == ReadVector(s.mSampledInputYs, from, 0)
             x1 == ReadVector(s.mSampledInputXs, to, 0)
             y1 == ReadVector(s.mSampledInputYs, to, 0)
             keyX == getKeyCenterXOfKeyIdG(keyId)
             keyY == getKeyCenterYOfKeyIdG(keyId)
         IN [value |-> pointToLineSegSquaredDistanceFloat(
                           keyX, keyY, x0.value, y0.value, x1.value, y1.value, extend),
             outOfBounds |-> x0.outOfBounds \/ y0.outOfBounds
                             \/ x1.outOfBounds \/ y1.outOfBounds]

\* getAllPossibleChars that inserts every search key's code point
RECURSIVE AllPossibleCharsFrom_NoSearch(_, _, _, _, _, _)
AllPossibleCharsFrom_NoSearch(s, index, j, filter, filterSize, newFilterSize) ==
    IF j >= getKeyCount
    THEN [filter |-> filter, newFilterSize |-> newFilterSize]
    ELSE IF j \in s.mSearchKeysVector[index + 1]
    THEN AllPossibleCharsFrom_NoSearch(s, index, j + 1,
             [filter EXCEPT ![newFilterSize + 1] = getCodePointOf(j)],
             filterSize, newFilterSize + 1)
    ELSE AllPossibleCharsFrom_NoSearch(s, index, j + 1, filter, filterSize,
                                       newFilterSize)

\* lines 408-423: the loop over the keys from key j on
RECURSIVE AllPossibleCharsFrom(_, _, _, _, _, _)
AllPossibleCharsFrom(s, index, j, filter, filterSize, newFilterSize) ==
    IF j >= getKeyCount
    THEN [filter |-> filter, newFilterSize |-> newFilterSize]
    ELSE IF j \in s.mSearchKeysVector[index + 1]
    THEN LET keyCodePoint == getCodePointOf(j)
             insert == \A k \in 0..(filterSize - 1) : filter[k + 1] # keyCodePoint
         IN IF insert
            THEN AllPossibleCharsFrom(s, index, j + 1,
                     [filter EXCEPT ![newFilterSize + 1] = keyCodePoint],
                     filterSize, newFilterSize + 1)
            ELSE AllPossibleCharsFrom(s, index, j + 1, filter, filterSize,
                                      newFilterSize)
    ELSE AllPossibleCharsFrom(s, index, j + 1, filter, filterSize, newFilterSize)

\* lines 401-425; index is unsigned.  The result is the filter buffer after
\* the call and the returned size
getAllPossibleChars(s, index, filter, filterSize) ==
    IF index >= Len(s.mSampledInputXs)
    THEN [filter |-> filter, newFilterSize |-> filterSize]
    ELSE AllPossibleCharsFrom(s, index, 0, filter, filterSize, filterSize)

\* the streams a session is built from
QueryStreams == UNION {[1..n -> PointSet] : n \in 0..MaxQueryInput}

InitQuery ==
    /\ \E stream \in QueryStreams, isGeometric \in BOOLEAN,
          maxPointToKeyLength \in MaxPointToKeyLengths :
          LET xs == [i \in 1..Len(stream) |-> stream[i][1]]
              ys == [i \in 1..Len(stream) |-> stream[i][2]]
              ts == TimesOf(Len(stream), 0)
          IN /\ SessionIs(initInputParams(FreshState, 0, maxPointToKeyLength,
                                          xs, ys, ts, isGeometric, NoCall.garbage))
             /\ inputXs = xs
             /\ inputYs = ys
             /\ lastCall = [NoCall EXCEPT !.isGeometric = isGeometric,
                                          !.xs = xs, !.ys = ys, !.ts = ts]
    /\ calls = 1
    /\ query = NoQuery
    /\ answer = NoQuery

\* the point indices asked for: in the session, just outside it, far outside
PointIndices == -1..(MaxQueryInput + 1)

\* the code points asked for: a and c have keys, the apostrophe and x do not
QueryCodePoints == {97, 99, 39, 120}

\* the scales, in tenths
Scales == {-10, 0, 5, 10, 20}

\* what the memory outside mDistanceCache_G can hold
BeyondDistances == {0, 7}

\* what the memory outside mInputProximities can hold
BeyondRows == {ProximityRow(<<>>, 0), ProximityRow(<<97, 98>>, 0)}

\* the filter buffers: filterSize distinct code points, then room for one
\* code point per key
FilterBuffers ==
    {f \in UNION {[1..n -> {97, 98, 120}] : n \in 0..2} :
        \A a, b \in 1..Len(f) : a # b => f[a] # f[b]}

GetDuration ==
    /\ query = NoQuery
    /\ \E index \in PointIndices :
          /\ query' = [op |-> "getDuration", index |-> index]
          /\ answer' = getDuration(State, index)
    /\ UNCHANGED <<inputXs, inputYs, sessionVars, lastCall, calls>>

GetLineToKeyDistance ==
    /\ query = NoQuery
    /\ \E from \in PointIndices, to \in PointIndices, keyId \in KeyIds,
          extend \in BOOLEAN :
          /\ query' = [op |-> "getLineToKeyDistance", from |-> from, to |-> to,
                       keyId |-> keyId, extend |-> extend]
          /\ answer' = getLineToKeyDistance(State, from, to, keyId, extend)
    /\ UNCHANGED <<inputXs, inputYs, sessionVars, lastCall, calls>>

GetPointToKeyLength ==
    /\ query = NoQuery
    /\ \E inputIndex \in PointIndices, codePoint \in QueryCodePoints,
          scale \in Scales, beyond \in BeyondDistances :
          /\ query' = [op |-> "getPointToKeyLength", index |-> inputIndex,
                       codePoint |-> codePoint, scale |-> scale]
          /\ answer' = getPointToKeyLength(State, inputIndex, codePoint, scale, beyond)
    /\ UNCHANGED <<inputXs, inputYs, sessionVars, lastCall, calls>>

\* mInputProximities is an array of MAX_WORD_LENGTH rows inside the session;
\* a row of another index is whatever lies next to the array
GetMatchedProximityId ==
    /\ query = NoQuery
    /\ \E index \in PointIndices \cup {MAX_WORD_LENGTH}, c \in TargetChars,
          checkProximityChars \in BOOLEAN, beyond \in BeyondRows :
          LET outOfBounds == index < 0 \/ index >= MAX_WORD_LENGTH
              memory == IF outOfBounds
                        THEN [State EXCEPT !.mInputProximities =
                                 [j \in DOMAIN @ \cup {index + 1} |->
                                     IF j = index + 1 THEN beyond ELSE @[j]]]
                        ELSE State
              matched == getMatchedProximityId(memory, index, c, checkProximityChars,
                                               <<>>)
          IN /\ query' = [op |-> "getMatchedProximityId", index |-> index, c |-> c,
                          checkProximityChars |-> checkProximityChars]
             /\ answer' = [value |-> matched.type, outOfBounds |-> outOfBounds]
    /\ UNCHANGED <<inputXs, inputYs, sessionVars, lastCall, calls>>

GetAllPossibleChars ==
    /\ query = NoQuery
    /\ \E index \in 0..(MaxQueryInput + 1), given \in FilterBuffers :
          LET filter == given \o [k \in 1..getKeyCount |-> 0]
          IN /\ query' = [op |-> "getAllPossibleChars", index |-> index,
                          filter |-> filter, filterSize |-> Len(given)]
             /\ answer' = getAllPossibleChars(State, index, filter, Len(given))
    /\ UNCHANGED <<inputXs, inputYs, sessionVars, lastCall, calls>>

NextQuery ==
    \/ GetDuration
    \/ GetLineToKeyDistance
    \/ GetPointToKeyLength
    \/ GetMatchedProximityId
    \/ GetAllPossibleChars

SpecQuery == InitQuery /\ [][NextQuery]_vars


\* the query is about a point of the session
SampledPointQueried == query.index >= 0 /\ query.index < mSampledInputSize

PointOutsideQueried ==
    IF query.op = "getLineToKeyDistance"
    THEN \/ query.from < 0 \/ query.from >= mSampledInputSize
         \/ query.to < 0 \/ query.to >= mSampledInputSize
    ELSE query.index < 0 \/ query.index >= mSampledInputSize

\* C13: for a point index outside [0, sampledInputSize), getDuration,
\* getLineToKeyDistance, getPointToKeyLength and getMatchedProximityId return
\* the neutral value (0, 0, 0, UNRELATED_CHAR) and read no session buffer
\* outside its bounds.
C13_DefensiveBounds ==
    (query.op \in {"getDuration", "getLineToKeyDistance", "getPointToKeyLength",
                   "getMatchedProximityId"}
     /\ PointOutsideQueried)
    => /\ ~answer.outOfBounds
       /\ answer.value = IF query.op = "getMatchedProximityId"
                         THEN "UNRELATED_CHAR" ELSE 0

\* getDuration and getLineToKeyDistance on their own: they return 0 and read
\* nothing for a point outside the session
C13_GuardedQueries ==
    (query.op \in {"getDuration", "getLineToKeyDistance"} /\ PointOutsideQueried)
    => /\ ~answer.outOfBounds
       /\ answer.value = 0

\* the first n entries of seq are pairwise distinct
PairwiseDistinct(seq, n) == \A a, b \in 1..n : a # b => seq[a] # seq[b]

CacheRow(cache, i) ==
    [k \in KeyIds |-> cache[i * getKeyCount + k + 1]]

\* C15: a continued initInputParams call that keeps L sampled points leaves
\* the distance-cache entries and the near keys of every point below L as
\* they were, and computes those of the points from L on from the geometry.
C15_AppendOnlyCache ==
    [][(calls' = calls + 1 /\ lastCall'.lastSavedInputSize > 0)
       => /\ \A i \in 0..(lastCall'.lastSavedInputSize - 1) :
                /\ CacheRow(mDistanceCache_G', i) = CacheRow(mDistanceCache_G, i)
                /\ mNearKeysVector'[i + 1] = mNearKeysVector[i + 1]
          /\ \A i \in lastCall'.lastSavedInputSize..(mSampledInputSize' - 1) :
                /\ CacheRow(mDistanceCache_G', i)
                     = [k \in KeyIds |->
                          getNormalizedSquaredDistanceFromCenterFloatG(
                              k, mSampledInputXs'[i + 1], mSampledInputYs'[i + 1])]
                /\ mNearKeysVector'[i + 1]
                     = {k \in KeyIds : IsNearKey(CacheRow(mDistanceCache_G', i)[k])}]_vars

\* a continued call kept a point that has a near key and added points to it
C15_Witness ==
    /\ calls = 2
    /\ lastCall.lastSavedInputSize > 0
    /\ mSampledInputSize > lastCall.lastSavedInputSize
    /\ mNearKeysVector[1] # {}


\* the last call kept no sampled point and was in gesture mode
FreshGestureCall ==
    /\ calls > 0
    /\ lastCall.isGeometric
    /\ lastCall.lastSavedInputSize = 0
    /\ lastCall.afterPop = SampleBuffer(FreshState)

\* mLengthCache never decreases along the sampled points
LengthsNonDecreasing ==
    \A i \in 1..(Len(mLengthCache) - 1) : mLengthCache[i] <= mLengthCache[i + 1]

\* C16: after a gesture-mode initInputParams that kept no point, with a
\* non-decreasing length cache, the search keys the early-exit scan computed
\* for each point i are the near keys of all points j >= i whose length
\* delta from i is below the look-ahead bound.
C16_EarlyExitValidity ==
    (FreshGestureCall /\ LengthsNonDecreasing)
    => \A i \in 1..mSampledInputSize :
          mSearchKeysVector[i]
            = UNION {mNearKeysVector[j] :
                        j \in {l \in i..mSampledInputSize :
                                  mLengthCache[l] - mLengthCache[i] < readForwordLength}}

\* the scan of some point stopped before the last point, and a later point
\* has a near key that is not a search key of that point
C16_Witness ==
    /\ FreshGestureCall
    /\ LengthsNonDecreasing
    /\ \E i \in 1..mSampledInputSize : \E j \in (i + 1)..(mSampledInputSize - 1) :
          /\ mLengthCache[j] - mLengthCache[i] >= readForwordLength
          /\ \E l \in (j + 1)..mSampledInputSize :
                ~(mNearKeysVector[l] \subseteq mSearchKeysVector[i])


(***************************************************************************)
(* The position getMatchedProximityId reports, checked under SpecMatch.    *)
(***************************************************************************)
\* getMatchedProximityId was called with a pointer to a position variable
PositionAsked == query.op = "getMatchedProximityId" /\ query.proximityIndex # <<>>

\* the position variable holds an index j >= 1 of the queried row whose
\* entry is c or the base-lower form of c
PositionOfMatch ==
    /\ answer.proximityIndex # query.proximityIndex
    /\ answer.proximityIndex[1] >= 1
    /\ answer.proximityIndex[1] < MAX_PROXIMITY_CHARS_SIZE
    /\ QueriedRow[answer.proximityIndex[1] + 1] \in {query.c, toBaseLowerCase(query.c)}

\* the primary code point is not c but has the base-lower form of c
PrimaryMatchesByBase ==
    /\ QueriedRow[1] \notin {query.c, toBaseLowerCase(query.c)}
    /\ toBaseLowerCase(QueriedRow[1]) = toBaseLowerCase(query.c)

\* C17 as stated: with a position output, NEAR_PROXIMITY_CHAR or
\* ADDITIONAL_PROXIMITY_CHAR comes with a position j >= 1 at which the list
\* entry equals c or its base-lower form; EQUIVALENT_CHAR or UNRELATED_CHAR
\* leaves the position unchanged.
C17_AsStated ==
    PositionAsked
    => IF answer.type \in {"NEAR_PROXIMITY_CHAR", "ADDITIONAL_PROXIMITY_CHAR"}
       THEN PositionOfMatch
       ELSE answer.proximityIndex = query.proximityIndex

\* C17: with a position output, ADDITIONAL_PROXIMITY_CHAR, and
\* NEAR_PROXIMITY_CHAR for a match found in the list, come with a position
\* j >= 1 at which the list entry equals c or its base-lower form;
\* NEAR_PROXIMITY_CHAR for a primary code point that matches by its
\* base-lower form, EQUIVALENT_CHAR and UNRELATED_CHAR leave the position
\* unchanged.
C17_MatchPosition ==
    PositionAsked
    => IF answer.type = "ADDITIONAL_PROXIMITY_CHAR"
          \/ (answer.type = "NEAR_PROXIMITY_CHAR" /\ ~PrimaryMatchesByBase)
       THEN PositionOfMatch
       ELSE answer.proximityIndex = query.proximityIndex

\* a match by the base-lower form of the primary code point, while c is also
\* in the near tier of the list: NEAR_PROXIMITY_CHAR and no position
C17_Witness ==
    /\ PositionAsked
    /\ query.checkProximityChars
    /\ PrimaryMatchesByBase
    /\ \E j \in 1..(TierEnd(QueriedRow, 1) - 1) : QueriedRow[j + 1] = query.c
    /\ answer.type = "NEAR_PROXIMITY_CHAR"
    /\ answer.proximityIndex = query.proximityIndex


(***************************************************************************)
(* Typed words: SpecTap.  The caller passes the points of the keys typed,  *)
(* or NOT_A_COORDINATE for a key typed without a position, in either mode  *)
(* and for either pointer, MaxCalls times.                                 *)
(***************************************************************************)
MaxTapInput == 2

\* K0's centre, half way from K1 to K2, no position
TapPointSet == {<<0, 0>>, <<4, 2>>, <<NOT_A_COORDINATE, NOT_A_COORDINATE>>}

TapStreams == UNION {[1..n -> TapPointSet] : n \in 0..MaxTapInput}

\* one call of initInputParams with a stream of its own
TypeWord ==
    /\ calls < MaxCalls
    /\ \E stream \in TapStreams, isGeometric \in BOOLEAN, pointerId \in PointerIds,
          maxPointToKeyLength \in MaxPointToKeyLengths :
          LET xs == [i \in 1..Len(stream) |-> stream[i][1]]
              ys == [i \in 1..Len(stream) |-> stream[i][2]]
              ts == TimesOf(Len(stream), 0)
          IN \E garbage \in GarbageChoices(State, Len(xs)) :
                LET cont == checkAndReturnIsContinuationPossible(
                                State, Len(xs), xs, ys, ts, isGeometric, garbage)
                IN /\ SetState(initInputParams(State, pointerId, maxPointToKeyLength,
                                               xs, ys, ts, isGeometric, garbage))
                   /\ inputXs' = xs
                   /\ inputYs' = ys
                   /\ lastCall' = [isGeometric |-> isGeometric, pointerId |-> pointerId,
                                   xs |-> xs, ys |-> ys, ts |-> ts,
                                   garbage |-> garbage,
                                   pushTouchPointStartIndex |->
                                       PushTouchPointStartIndex(State, cont),
                                   lastSavedInputSize |->
                                       LastSavedInputSize(State, cont),
                                   previousSize |-> mSampledInputSize,
                                   afterPop |-> SampleBuffer(PopOrClear(State, cont)),
                                   onlyGeometric |->
                                       lastCall.onlyGeometric /\ isGeometric,
                                   onePointer |->
                                       /\ lastCall.onePointer
                                       /\ calls > 0 => pointerId = lastCall.pointerId]
    /\ calls' = calls + 1
    /\ UNCHANGED <<query, answer>>

NextTap == TypeWord

SpecTap == Init /\ [][NextTap]_vars

\* the proximity list of sampled point i ends before position
\* ProximityListEnd(i): the first position with a code point that is not
\* positive
ProximityListEnd(i) ==
    LET row == getProximityCodePointsAt(State, i)
    IN IF \E j \in 0..(MAX_PROXIMITY_CHARS_SIZE - 1) : row[j + 1] <= 0
       THEN CHOOSE j \in 0..(MAX_PROXIMITY_CHARS_SIZE - 1) :
               row[j + 1] <= 0 /\ \A l \in 0..(j - 1) : row[l + 1] > 0
       ELSE MAX_PROXIMITY_CHARS_SIZE

\* the sweet-spot distance of sampled point i to the key of position j of
\* its proximity list is available: the key exists, has sweet-spot data, and
\* the point has a coordinate
DistanceAvailable(i, j) ==
    LET k == getKeyIndexOf(getProximityCodePointsAt(State, i)[j + 1])
    IN /\ k # NOT_AN_INDEX
       /\ hasSweetSpotData(k)
       /\ mSampledInputXs[i + 1] # NOT_A_COORDINATE

\* that distance: squared distance over squared radius, times 1024, cut to
\* an integer
ScaledSweetSpotDistance(i, j) ==
    LET k == getKeyIndexOf(getProximityCodePointsAt(State, i)[j + 1])
    IN ((Square(mSampledInputXs[i + 1] - getSweetSpotCenterXAt(k))
         + Square(mSampledInputYs[i + 1] - getSweetSpotCenterYAt(k))) * 1024)
       \div Square(getSweetSpotRadiiAt(k))

\* C18: after a tap-mode initInputParams for pointer 0 with touch position
\* correction enabled, entry (i, j) of the table is, for every sampled point
\* i and every position j of its proximity list before the first
\* non-positive code point, the sweet-spot normalized squared distance times
\* 1024 if that distance is available and else
\* EQUIVALENT_CHAR_WITHOUT_DISTANCE_INFO for j = 0 and
\* PROXIMITY_CHAR_WITHOUT_DISTANCE_INFO for j > 0, and every other entry is
\* NOT_A_DISTANCE; after a call in gesture mode or for another pointer every
\* entry is NOT_A_DISTANCE.
C18_DistanceTableSentinels ==
    calls > 0
    => \A i \in 0..(mSampledInputSize - 1) :
       \A j \in 0..(MAX_PROXIMITY_CHARS_SIZE - 1) :
          LET entry == mNormalizedSquaredDistances[i + 1][j + 1]
          IN IF lastCall.isGeometric \/ lastCall.pointerId # 0
             THEN entry = NOT_A_DISTANCE
             ELSE mTouchPositionCorrectionEnabled
                  => entry = IF j >= ProximityListEnd(i) THEN NOT_A_DISTANCE
                             ELSE IF DistanceAvailable(i, j)
                             THEN ScaledSweetSpotDistance(i, j)
                             ELSE IF j = 0 THEN EQUIVALENT_CHAR_WITHOUT_DISTANCE_INFO
                             ELSE PROXIMITY_CHAR_WITHOUT_DISTANCE_INFO

\* a typed word with a distance, both sentinels and an unwritten entry in
\* its table, one sentinel for a point without a coordinate
C18_Witness ==
    /\ calls > 0
    /\ ~lastCall.isGeometric
    /\ lastCall.pointerId = 0
    /\ mTouchPositionCorrectionEnabled
    /\ \E i \in 1..mSampledInputSize :
          /\ mNormalizedSquaredDistances[i][1] > 0
          /\ \E j \in 2..MAX_PROXIMITY_CHARS_SIZE :
                mNormalizedSquaredDistances[i][j] = PROXIMITY_CHAR_WITHOUT_DISTANCE_INFO
          /\ \E j \in 2..MAX_PROXIMITY_CHARS_SIZE :
                mNormalizedSquaredDistances[i][j] = NOT_A_DISTANCE
    /\ \E i \in 1..mSampledInputSize :
          /\ mSampledInputXs[i] = NOT_A_COORDINATE
          /\ mNormalizedSquaredDistances[i][1] = EQUIVALENT_CHAR_WITHOUT_DISTANCE_INFO


(***************************************************************************)
(* The sizes of the session's buffers, checked under Spec.                 *)
(***************************************************************************)
\* seq never decreases
NonDecreasing(seq) == \A i \in 1..(Len(seq) - 1) : seq[i] <= seq[i + 1]

\* the sample buffer, the key vectors and the distance cache have the sizes
\* that go with mSampledInputSize, and indices and lengths never decrease
BufferSizesAgree ==
    /\ Len(mSampledInputXs) = mSampledInputSize
    /\ Len(mSampledInputYs) = mSampledInputSize
    /\ Len(mTimes) = mSampledInputSize
    /\ Len(mLengthCache) = mSampledInputSize
    /\ Len(mInputIndice) = mSampledInputSize
    /\ Len(mNearKeysVector) = mSampledInputSize
    /\ Len(mSearchKeysVector) = mSampledInputSize
    /\ Len(mDistanceCache_G) = mSampledInputSize * getKeyCount
    /\ NonDecreasing(mInputIndice)
    /\ NonDecreasing(mLengthCache)

C20_ContinuationCheckReads ==
    [][calls' = calls + 1
       => \A index \in StreamReads(State, Len(lastCall'.xs), lastCall'.xs,
                                   lastCall'.ys, lastCall'.ts,
                                   lastCall'.isGeometric, lastCall'.garbage) :
             index >= 0 /\ index < Len(lastCall'.xs)]_vars

\* the tap-mode check on its own reads inside the streams
TapCheckReads ==
    [][(calls' = calls + 1 /\ ~lastCall'.isGeometric)
       => \A index \in StreamReads(State, Len(lastCall'.xs), lastCall'.xs,
                                   lastCall'.ys, lastCall'.ts,
                                   lastCall'.isGeometric, lastCall'.garbage) :
             index >= 0 /\ index < Len(lastCall'.xs)]_vars

(***************************************************************************)
(* C21: a continuation judged valid over at most one sampled point         *)
(***************************************************************************)
\* the twelve vectors that lines 74-85 clear
ClearedVectors(s) == [xs |-> s.mSampledInputXs, ys |-> s.mSampledInputYs,
                      times |-> s.mTimes, indice |-> s.mInputIndice,
                      lengths |-> s.mLengthCache,
                      distances |-> s.mDistanceCache_G,
                      nearKeys |-> s.mNearKeysVector,
                      searchKeys |-> s.mSearchKeysVector,
                      speedRates |-> s.mSpeedRates,
                      beelines |-> s.mBeelineSpeedPercentiles,
                      probabilities |-> s.mCharProbabilities,
                      directions |-> s.mDirections]

\* C21: a call whose continuation check succeeds while at most one point was
\* sampled before it behaves as a call whose check fails: each of the twelve
\* vectors is empty when resampling starts, the reused prefix length is 0,
\* resampling starts from original index 0, and the call leaves the buffers
\* that the same call leaves from a fresh state.
C21_ShortContinuationClears ==
    [][(/\ calls' = calls + 1
        /\ mIsContinuationPossible'
        /\ mSampledInputSize <= 1)
       => /\ ClearedVectors(PopOrClear(State, TRUE)) = ClearedVectors(FreshState)
          /\ ClearedVectors(PopOrClear(State, TRUE)) = ClearedVectors(PopOrClear(State, FALSE))
          /\ lastCall'.afterPop = SampleBuffer(FreshState)
          /\ lastCall'.lastSavedInputSize = 0
          /\ lastCall'.pushTouchPointStartIndex = 0
          /\ ObservableBuffers(State')
                 = ObservableBuffers(FromFresh(lastCall', mMaxPointToKeyLength'))]_vars

\* a second call was judged a valid continuation of a call that had sampled
\* exactly one point, and sampled points of its own
C21_Witness ==
    /\ calls = 2
    /\ mIsContinuationPossible
    /\ lastCall.previousSize = 1
    /\ lastCall.lastSavedInputSize = 0
    /\ lastCall.pushTouchPointStartIndex = 0
    /\ mSampledInputSize > 1

====
